---- MODULE Spec2Model ----
(***************************************************************************)
(* The live simulation session of frontend/components/TradeSimulator.tsx:  *)
(* the React state of the component, the requests it has in flight, its    *)
(* auto-refresh interval and its localStorage mirror.  One action per      *)
(* event handler / promise continuation; the effects a state change        *)
(* triggers (auto-refresh, auto-execution, save) run inside the action     *)
(* that changes the state, as React runs them after the commit.            *)
(***************************************************************************)
EXTENDS Integers, Sequences, FiniteSets, TLC

\* ---------------------------------------------------------------- constants
DefaultBalance == 10000          \* useState(10000) of liveBalance
liveInitialCapital == 10000      \* useState(10000) of liveInitialCapital
ResetBalance == 10000            \* setLiveBalance(10000) in stopLiveSimulation
AutoRefreshMs == 120000          \* setInterval(..., 120000)
MsPerSecond == 1000              \* duration in seconds

\* ---------------------------------------------------------------- bounds
MaxRequests == 3                 \* signal requests issued in one behaviour
MaxTicks == 2                    \* clock advances in one behaviour

TickMs == AutoRefreshMs \div 2   \* the clock advances in half intervals
Prices == {1000, 3000, 12000}    \* current_price values the backend may answer
Signals == {"BUY", "SELL", "HOLD"}

\* ---------------------------------------------------------------- values
\* A nullable Date / object is the empty sequence (null) or a one-element one.
NullVal == <<>>
Some(v) == <<v>>

\* liveSignal: null, a signal answer, or the JSON body of an HTTP error answer
\* (no signal / current_price fields: reading them gives undefined).
NullSignal == [kind |-> "null", signal |-> "undefined", current_price |-> 0]
SignalData(s, p) == [kind |-> "data", signal |-> s, current_price |-> p]
ErrorBody == [kind |-> "error", signal |-> "undefined", current_price |-> 0]

\* What a settled fetch can be: a signal answer, an HTTP error answer whose
\* body parses as JSON, or a rejection (network failure, timeout, bad body).
Answers == {SignalData(s, p) : s \in Signals, p \in Prices} \cup {ErrorBody}
Rejected == [kind |-> "rejected", signal |-> "undefined", current_price |-> 0]
Outcomes == Answers \cup {Rejected}

\* The Strategy Config form: ticker, strategy and the SMA window of params
\* (useState('NVDA'), useState('SMA'), useState({ window: 20, ... })).
DefaultForm == [ticker |-> "NVDA", strategy |-> "SMA", window |-> 20]
Tickers == {"NVDA", "AAPL"}      \* values typed into the ticker input
Windows == {20, 0}               \* values typed into the window input
\* The forms the edits stay within: one field away from the default.
Forms ==
    {f \in [ticker : Tickers, strategy : {"SMA"}, window : Windows] :
        f.ticker = DefaultForm.ticker \/ f.window = DefaultForm.window}

RECURSIVE Reverse(_)
Reverse(s) == IF s = <<>> THEN <<>> ELSE Reverse(Tail(s)) \o <<Head(s)>>

VARIABLES
    liveMode, liveSignal, liveBalance, livePosition, liveTransactions,
    loadingLiveSignal, lastUpdateTime, liveStartTime, livePerformance,
    backtestResult, loadingBacktest,
    timers,         \* the auto-refresh intervals that are set: their due times
    pending,        \* signal requests in flight
    nextId,         \* number of signal requests issued so far, plus one
    now,            \* wall clock, ms
    storage,        \* localStorage mirror of the session
    form,           \* ticker, strategy and params of the current render
    closure,        \* the form of the render that set the interval
    backtestCfg,    \* body of the backtest request in flight, or null
    runCfg,         \* history: body of the start request that began the run
    peer,           \* a second instance on the same origin: null, or its session
    bt,             \* backend: a backtest being replayed, or null
    sc,             \* backend: a score computation, or null
    push,           \* the push-notification hook and its browser, or null
    dash,           \* the dashboard's stock list and its loads, or null
    ev,             \* history: the last event handled
    runTrades,      \* history: trades executed in the current run, oldest first
    streakSignal,   \* history: signal value of the current streak of answers
    streakTrades,   \* history: trades executed during that streak
    runs,           \* history: number of live runs begun
    lastPrice,      \* history: the current_price last answered to the live run
    runValues,      \* history: cash + shares * price right after each trade
    answered        \* history: id of the request whose answer is the signal,
                    \* kept while other requests are in flight (else 0)

state == <<liveMode, liveSignal, liveBalance, livePosition, liveTransactions,
           loadingLiveSignal, lastUpdateTime, liveStartTime, livePerformance,
           backtestResult, loadingBacktest>>
hist == <<ev, runTrades, streakSignal, streakTrades, runs, lastPrice, runValues,
          answered>>
formVars == <<form, closure, backtestCfg, runCfg>>
vars == <<state, timers, pending, nextId, now, storage, formVars, peer, bt, sc,
          push, dash, hist>>

\* ---------------------------------------------------------------- effects
\* useEffect(..., [liveSignal, liveMode]): automatic trade execution, run
\* with the balance, position and log of the render that saw the change.
\* Variant: the BUY branch without the check that the position is flat.
ShouldBuy_AnyPosition(sig, pos) == sig.signal = "BUY"

ShouldBuy(sig, pos) == sig.signal = "BUY" /\ pos = 0

\* Variant: the second branch taken for every signal that is not BUY.
ShouldSell_AnySignal(sig, pos) == sig.signal # "BUY" /\ pos > 0

ShouldSell(sig, pos) == sig.signal = "SELL" /\ pos > 0

\* Variant: the share count rounded up instead of down.
SharesToBuy_Ceil(bal, price) == (bal + price - 1) \div price

\* Math.floor(liveBalance / price)
SharesToBuy(bal, price) == bal \div price

\* Variant: the new record replaces the log instead of being prepended.
RecordTrade_Replace(tx, txs) == <<tx>>

\* [tx, ...prev]: the log is kept newest first.
RecordTrade(tx, txs) == <<tx>> \o txs

\* Variant: a BUY of zero shares is executed too.
CanBuy_ZeroShares(sharesToBuy) == sharesToBuy >= 0

\* if (sharesToBuy > 0)
CanBuy(sharesToBuy) == sharesToBuy > 0

\* Variant: the cost of one share, whatever the count.
Cost_OneShare(sharesToBuy, price) == price

\* const cost = sharesToBuy * price
Cost(sharesToBuy, price) == sharesToBuy * price

\* Variant: a SELL is recorded with one share.
SharesSold_One(pos) == 1

\* shares: livePosition
SharesSold(pos) == pos

AutoExecute(mode, sig, bal, pos, txs, t) ==
    IF ~mode \/ sig.kind = "null"
    THEN [bal |-> bal, pos |-> pos, txs |-> txs, trade |-> NullVal]
    ELSE IF ShouldBuy(sig, pos)
    THEN LET price == sig.current_price
             sharesToBuy == SharesToBuy(bal, price)
             cost == Cost(sharesToBuy, price)
             tx == [type |-> "buy", shares |-> sharesToBuy, price |-> price,
                    timestamp |-> t, balance_after |-> bal - cost]
         IN  IF CanBuy(sharesToBuy)
             THEN [bal |-> bal - cost, pos |-> pos + sharesToBuy,
                   txs |-> RecordTrade(tx, txs), trade |-> Some(tx)]
             ELSE [bal |-> bal, pos |-> pos, txs |-> txs, trade |-> NullVal]
    ELSE IF ShouldSell(sig, pos)
    THEN LET price == sig.current_price
             revenue == pos * price
             tx == [type |-> "sell", shares |-> SharesSold(pos), price |-> price,
                    timestamp |-> t, balance_after |-> bal + revenue]
         IN  [bal |-> bal + revenue, pos |-> 0,
              txs |-> RecordTrade(tx, txs), trade |-> Some(tx)]
    ELSE [bal |-> bal, pos |-> pos, txs |-> txs, trade |-> NullVal]

\* useEffect(..., [liveMode]): the auto-refresh interval.  Runs only when
\* liveMode changed: the cleanup clears the old interval, then a new one is
\* set if live mode is on.
\* The intervals are kept as the sequence of their next due times; the one
\* this effect set is the last.  (Variant below: the cleanup is missing.)
ClearInterval_Missing(oldMode, ts) == ts

ClearInterval(oldMode, ts) ==
    IF oldMode /\ ts # <<>> THEN SubSeq(ts, 1, Len(ts) - 1) ELSE ts

SetInterval(newMode, ts, t) ==
    IF newMode THEN Append(ts, t + AutoRefreshMs) ELSE ts

AutoRefreshEffect(oldMode, newMode, ts, t) ==
    IF newMode = oldMode THEN ts
    ELSE SetInterval(newMode, ClearInterval(oldMode, ts), t)

\* A localStorage item: null for a key never written (getItem), else the
\* text setItem stored.  JSON.stringify gives a text that JSON.parse turns
\* back into the value for booleans, finite numbers, strings and the arrays
\* and objects made of them; a Date becomes its ISO string (milliseconds
\* kept), which JSON.parse leaves a string, and null becomes "null".
Stringify(v) == Some(v)
StringifyDate(d) ==
    Some(IF d = NullVal THEN NullVal ELSE Some([iso |-> d[1]]))

\* The save effect's setItem calls: one item per persisted field.
SaveState(frm, mode, sig, bal, pos, txs, upd, start, perf) ==
    [trade_form |-> Stringify(frm), live_mode |-> Stringify(mode),
     live_signal |-> Stringify(sig), live_balance |-> Stringify(bal),
     live_position |-> Stringify(pos), live_transactions |-> Stringify(txs),
     live_last_update |-> StringifyDate(upd),
     live_start_time |-> StringifyDate(start),
     live_performance |-> Stringify(perf)]

SaveSession(s) ==
    SaveState(s.trade_form, s.live_mode, s.live_signal, s.live_balance,
              s.live_position, s.live_transactions, s.live_last_update,
              s.live_start_time, s.live_performance)

\* Variant: the save effect without its isLoaded guard.
SaveEffect_Ungated(isLoaded, st, session) == SaveSession(session)

\* useEffect save: nothing is written until isLoaded; then every persisted
\* field is written after each render that changed one.
SaveEffect(isLoaded, st, session) ==
    IF isLoaded THEN SaveSession(session) ELSE st

\* The state of the first render of a mount: the useState defaults.
DefaultSession ==
    [trade_form |-> DefaultForm, live_mode |-> FALSE, live_signal |-> NullSignal,
     live_balance |-> DefaultBalance, live_position |-> 0,
     live_transactions |-> <<>>, live_last_update |-> NullVal,
     live_start_time |-> NullVal, live_performance |-> NullVal]

\* loadSaved: "if (saved) set(JSON.parse(saved))" keeps the default for a
\* missing item; a date is set only if the parsed value is not null.
LoadItem(item, default) == IF item = NullVal THEN default ELSE item[1]
LoadDate(item, default) ==
    IF item = NullVal THEN default
    ELSE IF item[1] = NullVal THEN default
    ELSE Some(item[1][1].iso)

\* The session after the load effect of a mount that finds the items st.
LoadSaved(st) ==
    [trade_form |-> LoadItem(st.trade_form, DefaultSession.trade_form),
     live_mode |-> LoadItem(st.live_mode, DefaultSession.live_mode),
     live_signal |-> LoadItem(st.live_signal, DefaultSession.live_signal),
     live_balance |-> LoadItem(st.live_balance, DefaultSession.live_balance),
     live_position |-> LoadItem(st.live_position, DefaultSession.live_position),
     live_transactions |->
         LoadItem(st.live_transactions, DefaultSession.live_transactions),
     live_last_update |->
         LoadDate(st.live_last_update, DefaultSession.live_last_update),
     live_start_time |->
         LoadDate(st.live_start_time, DefaultSession.live_start_time),
     live_performance |->
         LoadItem(st.live_performance, DefaultSession.live_performance)]

\* The items a mount finds: the save effect of the first render has run on
\* the defaults with isLoaded false, before the restored state is rendered.
ItemsAtMount == SaveEffect(FALSE, storage, DefaultSession)

\* The save effect of a render of the loaded component.
Persist ==
    \E session \in {[trade_form |-> form', live_mode |-> liveMode',
                     live_signal |-> liveSignal', live_balance |-> liveBalance',
                     live_position |-> livePosition',
                     live_transactions |-> liveTransactions',
                     live_last_update |-> lastUpdateTime',
                     live_start_time |-> liveStartTime',
                     live_performance |-> livePerformance']} :
        storage' = SaveEffect(TRUE, storage, session)

\* A quotient a / b of the summary (b > 0), kept exact and in lowest terms.
RECURSIVE GCD(_, _)
GCD(a, b) == IF b = 0 THEN a ELSE GCD(b, a % b)
Abs(n) == IF n < 0 THEN 0 - n ELSE n
Frac(n, d) ==
    LET g == GCD(Abs(n), d) IN [num |-> n \div g, den |-> d \div g]
FracLess(x, y) == x.num * y.den < y.num * x.den

\* stopLiveSimulation: finalValue and totalReturn.
FinalValue(bal, pos, sig) == bal + pos * sig.current_price
TotalReturn(finalValue) ==
    Frac((finalValue - liveInitialCapital) * 100, liveInitialCapital)

\* stopLiveSimulation, the forEach over the reversed log: one point per trade,
\* chron being the trades oldest first and pos the runningPosition so far.
RECURSIVE CurvePoints(_, _)
CurvePoints(chron, pos) ==
    IF chron = <<>> THEN <<>>
    ELSE LET tx == Head(chron)
             runningPosition == IF tx.type = "buy" THEN pos + tx.shares ELSE 0
         IN  <<[value |-> tx.balance_after + runningPosition * tx.price,
                timestamp |-> Some(tx.timestamp)]>>
             \o CurvePoints(Tail(chron), runningPosition)

\* Variant: the log is processed as stored, newest first.
EquityCurve_NewestFirst(txs, start) ==
    <<[value |-> liveInitialCapital, timestamp |-> start]>>
    \o CurvePoints(txs, 0)

\* stopLiveSimulation: the equity curve, the initial point first.
EquityCurve(txs, start) ==
    <<[value |-> liveInitialCapital, timestamp |-> start]>>
    \o CurvePoints(Reverse(txs), 0)

\* stopLiveSimulation, "Calculate max drawdown": the forEach over the curve.
RECURSIVE DrawdownFrom(_, _, _)
DrawdownFrom(curve, peak, maxDrawdown) ==
    IF curve = <<>> THEN maxDrawdown
    ELSE LET value == Head(curve).value
             newPeak == IF value > peak THEN value ELSE peak
             drawdown == Frac((value - newPeak) * 100, newPeak)
         IN  DrawdownFrom(Tail(curve), newPeak,
                          IF FracLess(drawdown, maxDrawdown) THEN drawdown
                          ELSE maxDrawdown)

\* Variant: every point is measured against the highest value of the curve.
RECURSIVE DrawdownFixedPeak(_, _, _)
DrawdownFixedPeak(curve, peak, maxDrawdown) ==
    IF curve = <<>> THEN maxDrawdown
    ELSE LET drawdown == Frac((Head(curve).value - peak) * 100, peak)
         IN  DrawdownFixedPeak(Tail(curve), peak,
                               IF FracLess(drawdown, maxDrawdown) THEN drawdown
                               ELSE maxDrawdown)
MaxDrawdown_GlobalPeak(curve) ==
    LET top == CHOOSE v \in {curve[i].value : i \in DOMAIN curve} :
                   \A i \in DOMAIN curve : curve[i].value <= v
    IN  DrawdownFixedPeak(curve, top, Frac(0, 1))

MaxDrawdown(curve) == DrawdownFrom(curve, liveInitialCapital, Frac(0, 1))

\* stopLiveSimulation, "Calculate Sharpe ratio": the returns between
\* consecutive points of the curve.
Returns(curve) ==
    [i \in 1..(Len(curve) - 1) |->
        Frac(curve[i + 1].value - curve[i].value, curve[i].value)]
FracSum(x, y) == Frac(x.num * y.den + y.num * x.den, x.den * y.den)
RECURSIVE SumReturns(_)
SumReturns(returns) ==
    IF returns = <<>> THEN Frac(0, 1)
    ELSE FracSum(Head(returns), SumReturns(Tail(returns)))
\* stdDev is 0 exactly when there is no return or all returns are equal.
StdDevIsZero(returns) ==
    \A i \in DOMAIN returns : \A j \in DOMAIN returns : returns[i] = returns[j]
Sign(n) == IF n < 0 THEN 0 - 1 ELSE IF n > 0 THEN 1 ELSE 0

\* Variant: the division without the guard on stdDev.
SharpeRatio_Unguarded(curve) ==
    IF StdDevIsZero(Returns(curve)) THEN [kind |-> "NaN", sign |-> 0]
    ELSE [kind |-> "number", sign |-> Sign(SumReturns(Returns(curve)).num)]

\* sharpeRatio = stdDev !== 0 ? (avgReturn / stdDev) * sqrt(252) : 0, kept as
\* its sign: the square roots are not computed.
SharpeRatio(curve) ==
    IF StdDevIsZero(Returns(curve)) THEN [kind |-> "number", sign |-> 0]
    ELSE [kind |-> "number", sign |-> Sign(SumReturns(Returns(curve)).num)]

\* Variant: the summary built after the reset of the log.
Performance_AfterReset(bal, pos, sig, txs, start, t) ==
    [initial_capital |-> liveInitialCapital,
     final_balance |-> FinalValue(bal, pos, sig),
     total_return_percent |-> TotalReturn(FinalValue(bal, pos, sig)),
     max_drawdown_percent |-> MaxDrawdown(EquityCurve(<<>>, start)),
     sharpe_ratio |-> SharpeRatio(EquityCurve(<<>>, start)),
     total_trades |-> 0,
     duration_seconds |-> IF start = NullVal THEN 0
                          ELSE (t - start[1]) \div MsPerSecond,
     trades |-> <<>>]

\* Variant: the trades of the summary in the order of the log, newest first.
Performance_NewestFirst(bal, pos, sig, txs, start, t) ==
    [initial_capital |-> liveInitialCapital,
     final_balance |-> FinalValue(bal, pos, sig),
     total_return_percent |-> TotalReturn(FinalValue(bal, pos, sig)),
     max_drawdown_percent |-> MaxDrawdown(EquityCurve(txs, start)),
     sharpe_ratio |-> SharpeRatio(EquityCurve(txs, start)),
     total_trades |-> Len(txs),
     duration_seconds |-> IF start = NullVal THEN 0
                          ELSE (t - start[1]) \div MsPerSecond,
     trades |-> txs]

\* stopLiveSimulation: the performance record.
Performance(bal, pos, sig, txs, start, t) ==
    [initial_capital |-> liveInitialCapital,
     final_balance |-> FinalValue(bal, pos, sig),
     total_return_percent |-> TotalReturn(FinalValue(bal, pos, sig)),
     max_drawdown_percent |-> MaxDrawdown(EquityCurve(txs, start)),
     sharpe_ratio |-> SharpeRatio(EquityCurve(txs, start)),
     total_trades |-> Len(txs),
     duration_seconds |-> IF start = NullVal THEN 0
                          ELSE (t - start[1]) \div MsPerSecond,
     trades |-> Reverse(txs)]

\* ---------------------------------------------------------------- Init
InitApp ==
    /\ liveMode = FALSE
    /\ liveSignal = NullSignal
    /\ liveBalance = DefaultBalance
    /\ livePosition = 0
    /\ liveTransactions = <<>>
    /\ loadingLiveSignal = FALSE
    /\ lastUpdateTime = NullVal
    /\ liveStartTime = NullVal
    /\ livePerformance = NullVal
    /\ backtestResult = "null"
    /\ loadingBacktest = FALSE
    /\ timers = <<>>
    /\ pending = {}
    /\ nextId = 1
    /\ now = 0
    /\ form = DefaultForm
    /\ closure = DefaultForm
    /\ backtestCfg = NullVal
    /\ runCfg = DefaultForm
    /\ peer = NullVal
    /\ storage = SaveSession(DefaultSession)
    /\ ev = "mount"
    /\ runTrades = <<>>
    /\ streakSignal = "none"
    /\ streakTrades = 0
    /\ runs = 0
    /\ lastPrice = 0
    /\ runValues = <<>>
    /\ answered = 0

Init == InitApp /\ bt = NullVal /\ sc = NullVal /\ push = NullVal /\ dash = NullVal

\* ---------------------------------------------------------------- actions
\* The wall clock advances; an interval that is due fires first.
Tick ==
    /\ UNCHANGED <<peer, bt, sc, push, dash, answered>>
    /\ now < MaxTicks * TickMs
    /\ \A i \in DOMAIN timers : now + TickMs <= timers[i]
    /\ now' = now + TickMs
    /\ ev' = "tick"
    /\ UNCHANGED formVars
    /\ UNCHANGED <<state, timers, pending, nextId, storage,
                   runTrades, streakSignal, streakTrades, runs, lastPrice, runValues>>

\* runBacktest, up to the await.
RunBacktest ==
    /\ UNCHANGED <<peer, bt, sc, push, dash, answered>>
    /\ ~loadingBacktest
    /\ loadingBacktest' = TRUE
    /\ backtestCfg' = Some(form)
    /\ ev' = "runBacktest"
    /\ UNCHANGED <<form, closure, runCfg>>
    /\ UNCHANGED <<liveMode, liveSignal, liveBalance, livePosition,
                   liveTransactions, loadingLiveSignal, lastUpdateTime,
                   liveStartTime, livePerformance, backtestResult>>
    /\ UNCHANGED <<timers, pending, nextId, now, storage,
                   runTrades, streakSignal, streakTrades, runs, lastPrice, runValues>>

\* What a settled backtest fetch is: a result or a rejection.  An HTTP error
\* answer, whose body is stored like a result, is drawn with the backend of
\* the form edits below.
BacktestOutcomes == {"data", "rejected"}

\* runBacktest, after the await: any parsed body becomes the result.
BacktestSettle(out) ==
    /\ UNCHANGED <<peer, bt, sc, push, dash, answered>>
    /\ loadingBacktest
    /\ loadingBacktest' = FALSE
    /\ backtestResult' = IF out = "rejected" THEN backtestResult ELSE out
    /\ backtestCfg' = NullVal
    /\ ev' = "backtestSettle"
    /\ UNCHANGED <<form, closure, runCfg>>
    /\ UNCHANGED <<liveMode, liveSignal, liveBalance, livePosition,
                   liveTransactions, loadingLiveSignal, lastUpdateTime,
                   liveStartTime, livePerformance>>
    /\ UNCHANGED <<timers, pending, nextId, now, storage,
                   runTrades, streakSignal, streakTrades, runs, lastPrice, runValues>>

\* The part of a signal request before the await: fetch is issued and the
\* loading flag is raised.
IssueRequest(kind, cfg) ==
    /\ nextId <= MaxRequests
    /\ pending' = pending \cup {[id |-> nextId, kind |-> kind, cfg |-> cfg,
                                 run |-> runs]}
    /\ nextId' = nextId + 1
    /\ loadingLiveSignal' = TRUE

\* History of the streak of equal signal values answered to a live run.
StreakAfter(mode, d, traded) ==
    IF ~mode \/ d.kind # "data"
    THEN [sig |-> streakSignal, n |-> streakTrades]
    ELSE IF d.signal = streakSignal
    THEN [sig |-> streakSignal, n |-> streakTrades + traded]
    ELSE [sig |-> d.signal, n |-> traded]

Traded(eff) == IF eff.trade = NullVal THEN 0 ELSE 1

\* History: the value of the portfolio right after the trade eff executed at
\* the price of the signal sig (empty if it executed none).
ValueAfter(eff, sig) ==
    IF eff.trade = NullVal THEN <<>>
    ELSE <<eff.bal + eff.pos * sig.current_price>>

\* startLiveSimulation, up to the await ("Start Live Simulation" button:
\* shown while live mode is off, disabled while loading or without a
\* backtest result).
StartClick ==
    /\ UNCHANGED <<peer, bt, sc, push, dash, answered>>
    /\ ~liveMode
    /\ ~loadingLiveSignal
    /\ backtestResult # "null"
    /\ IssueRequest("start", form)
    /\ ev' = "startClick"
    /\ UNCHANGED formVars
    /\ UNCHANGED <<liveMode, liveSignal, liveBalance, livePosition,
                   liveTransactions, lastUpdateTime, liveStartTime,
                   livePerformance, backtestResult, loadingBacktest>>
    /\ UNCHANGED <<timers, now, storage, runTrades, streakSignal, streakTrades, runs, lastPrice, runValues>>

\* refreshLiveSignal, up to the await, as called from a render whose
\* liveMode was closureMode and whose form was closureForm.
RefreshIssue(closureMode, closureForm) ==
    /\ UNCHANGED <<peer, bt, sc, push, dash, answered>>
    /\ closureMode
    /\ IssueRequest("refresh", closureForm)
    /\ UNCHANGED formVars
    /\ UNCHANGED <<liveMode, liveSignal, liveBalance, livePosition,
                   liveTransactions, lastUpdateTime, liveStartTime,
                   livePerformance, backtestResult, loadingBacktest>>
    /\ UNCHANGED <<now, storage, runTrades, streakSignal, streakTrades, runs, lastPrice, runValues>>

\* The Refresh button: rendered in live mode with a signal, disabled while
\* the loading flag is up.
RefreshClick ==
    /\ liveMode
    /\ liveSignal.kind # "null"
    /\ ~loadingLiveSignal
    /\ RefreshIssue(liveMode, form)
    /\ timers' = timers
    /\ ev' = "refreshClick"

\* The interval callback: it holds the refreshLiveSignal of the render that
\* set the interval, in which liveMode was true, with the form of that render.
TimerFire(i) ==
    /\ i \in DOMAIN timers
    /\ now >= timers[i]
    /\ RefreshIssue(TRUE, closure)
    /\ timers' = [timers EXCEPT ![i] = @ + AutoRefreshMs]
    /\ ev' = "timerFire"

\* Variant: the answer to a refresh clears the summary as well.
PerformanceAfterAnswer_AlwaysCleared(kind, perf) == NullVal

\* startLiveSimulation clears the summary of the earlier run when its answer
\* arrives (setLivePerformance(null)); refreshLiveSignal leaves it alone.
PerformanceAfterAnswer(kind, perf) ==
    IF kind = "start" THEN NullVal ELSE perf

\* Variant: every answer sets the start time.
StartTimeAfterAnswer_Always(kind, start, time) == Some(time)

\* startLiveSimulation sets the start time when its answer arrives
\* (setLiveStartTime(now)); refreshLiveSignal sets only the update time.
StartTimeAfterAnswer(kind, start, time) ==
    IF kind = "start" THEN Some(time) ELSE start

\* History: the request whose answer is in effect, as long as it matters.
AnsweredAfter(id, inFlight) == IF inFlight = {} THEN 0 ELSE id

\* The continuation of a signal request after the await, for one request in
\* flight and one outcome of its fetch.
Settle(req, d) ==
    /\ UNCHANGED <<peer, bt, sc, push, dash>>
    /\ req \in pending
    /\ pending' = pending \ {req}
    /\ loadingLiveSignal' = FALSE
    /\ IF d.kind = "rejected"
       THEN /\ ev' = IF req.kind = "start" THEN "startFailed" ELSE "refreshFailed"
            /\ UNCHANGED <<liveMode, liveSignal, liveBalance, livePosition,
                           liveTransactions, lastUpdateTime, liveStartTime,
                           livePerformance, timers, storage, formVars,
                           runTrades, streakSignal, streakTrades, runs, lastPrice, runValues>>
            /\ answered' = AnsweredAfter(answered, pending')
       ELSE LET mode == IF req.kind = "start" THEN TRUE ELSE liveMode
                eff == AutoExecute(mode, d, liveBalance, livePosition,
                                   liveTransactions, now)
                begun == req.kind = "start" /\ ~liveMode
                base == IF begun THEN <<>> ELSE runTrades
                streak == StreakAfter(mode, d, Traded(eff))
            IN  /\ liveSignal' = d
                /\ answered' = AnsweredAfter(req.id, pending')
                /\ liveMode' = mode
                /\ closure' = IF mode /\ ~liveMode THEN form ELSE closure
                /\ runCfg' = IF begun THEN req.cfg ELSE runCfg
                /\ UNCHANGED <<form, backtestCfg>>
                /\ lastUpdateTime' = Some(now)
                /\ liveStartTime' = StartTimeAfterAnswer(req.kind, liveStartTime, now)
                /\ livePerformance' = PerformanceAfterAnswer(req.kind, livePerformance)
                /\ liveBalance' = eff.bal
                /\ livePosition' = eff.pos
                /\ liveTransactions' = eff.txs
                /\ timers' = AutoRefreshEffect(liveMode, mode, timers, now)
                /\ runs' = IF begun THEN runs + 1 ELSE runs
                /\ runTrades' = base \o eff.trade
                /\ runValues' = (IF begun THEN <<>> ELSE runValues)
                                   \o ValueAfter(eff, d)
                /\ lastPrice' = IF ~mode THEN lastPrice
                                ELSE IF d.kind = "data" THEN d.current_price
                                ELSE IF begun THEN 0 ELSE lastPrice
                /\ streakSignal' = streak.sig
                /\ streakTrades' = streak.n
                /\ ev' = IF req.kind = "start" THEN "startAnswer"
                         ELSE "refreshAnswer"
                /\ Persist
    /\ UNCHANGED <<backtestResult, loadingBacktest, nextId, now>>

\* Variant: the reset leaves the position and the log.
ResetPortfolio_Partial ==
    [bal |-> ResetBalance, pos |-> livePosition, txs |-> liveTransactions]

\* stopLiveSimulation, "Reset state": the portfolio part.
ResetPortfolio == [bal |-> ResetBalance, pos |-> 0, txs |-> <<>>]

\* stopLiveSimulation ("Stop Simulation" button, rendered in live mode).
Stop ==
    /\ UNCHANGED <<peer, bt, sc, push, dash>>
    /\ answered' = 0
    /\ liveMode
    /\ livePerformance' = Some(Performance(liveBalance, livePosition, liveSignal,
                                           liveTransactions, liveStartTime, now))
    /\ liveMode' = FALSE
    /\ liveSignal' = NullSignal
    /\ liveBalance' = ResetPortfolio.bal
    /\ livePosition' = ResetPortfolio.pos
    /\ liveTransactions' = ResetPortfolio.txs
    /\ lastUpdateTime' = NullVal
    /\ timers' = AutoRefreshEffect(liveMode, FALSE, timers, now)
    /\ ev' = "stop"
    /\ streakSignal' = "none"
    /\ streakTrades' = 0
    /\ lastPrice' = 0
    /\ UNCHANGED formVars
    /\ UNCHANGED <<loadingLiveSignal, liveStartTime, backtestResult,
                   loadingBacktest, pending, nextId, now, runTrades, runs, runValues>>
    /\ Persist

\* "Clear Results" button.
ClearResults ==
    /\ UNCHANGED <<peer, bt, sc, push, dash, answered>>
    /\ livePerformance # NullVal
    /\ livePerformance' = NullVal
    /\ ev' = "clearResults"
    /\ UNCHANGED formVars
    /\ UNCHANGED <<liveMode, liveSignal, liveBalance, livePosition,
                   liveTransactions, loadingLiveSignal, lastUpdateTime,
                   liveStartTime, backtestResult, loadingBacktest>>
    /\ UNCHANGED <<timers, pending, nextId, now,
                   runTrades, streakSignal, streakTrades, runs, lastPrice, runValues>>
    /\ Persist

\* The component is unmounted and mounted again (page reload, or leaving and
\* re-entering the Trade tab): the interval is cleared, answers to the old
\* instance are lost, the new instance starts from the defaults and restores
\* the persisted fields, and the effects run on the restored state.
Reload ==
    \E saved \in {LoadSaved(ItemsAtMount)} :
    LET mode == saved.live_mode
        eff == AutoExecute(mode, saved.live_signal, saved.live_balance,
                           saved.live_position, saved.live_transactions, now)
        streak == StreakAfter(mode, saved.live_signal, Traded(eff))
    IN  /\ liveMode' = mode
        /\ liveSignal' = saved.live_signal
        /\ liveBalance' = eff.bal
        /\ livePosition' = eff.pos
        /\ liveTransactions' = eff.txs
        /\ lastUpdateTime' = saved.live_last_update
        /\ liveStartTime' = saved.live_start_time
        /\ livePerformance' = saved.live_performance
        /\ loadingLiveSignal' = FALSE
        /\ backtestResult' = "null"
        /\ loadingBacktest' = FALSE
        /\ timers' = SetInterval(mode, ClearInterval(liveMode, timers), now)
        /\ pending' = {}
        /\ runTrades' = runTrades \o eff.trade
        /\ streakSignal' = streak.sig
        /\ streakTrades' = streak.n
        /\ form' = saved.trade_form
        /\ closure' = IF mode THEN saved.trade_form ELSE closure
        /\ backtestCfg' = NullVal
        /\ ev' = "reload"
        /\ Persist
        /\ runValues' = runValues \o ValueAfter(eff, saved.live_signal)
        /\ UNCHANGED <<nextId, now, runs, lastPrice, runCfg, peer, bt, sc, push,
                     dash>>
        /\ answered' = 0

Next ==
    \/ Tick
    \/ RunBacktest
    \/ \E out \in BacktestOutcomes : BacktestSettle(out)
    \/ StartClick
    \/ RefreshClick
    \/ \E i \in DOMAIN timers : TimerFire(i)
    \/ \E req \in pending, d \in Outcomes : Settle(req, d)
    \/ Stop
    \/ ClearResults
    \/ Reload

Spec == Init /\ [][Next]_vars

\* ---------------------------------------------------------------- form edits
\* The ticker input: onChange calls setTicker; the save effect follows.
SetTicker(t) ==
    /\ UNCHANGED <<peer, bt, sc, push, dash, answered>>
    /\ t # form.ticker
    /\ [form EXCEPT !.ticker = t] \in Forms
    /\ form' = [form EXCEPT !.ticker = t]
    /\ ev' = "setTicker"
    /\ UNCHANGED <<state, timers, pending, nextId, now, closure, backtestCfg,
                   runCfg, runTrades, streakSignal, streakTrades, runs,
                   lastPrice, runValues>>
    /\ Persist

\* The window input: onChange calls setParams with Number(e.target.value),
\* whatever the number; the save effect follows.
SetWindow(w) ==
    /\ UNCHANGED <<peer, bt, sc, push, dash, answered>>
    /\ w # form.window
    /\ [form EXCEPT !.window = w] \in Forms
    /\ form' = [form EXCEPT !.window = w]
    /\ ev' = "setWindow"
    /\ UNCHANGED <<state, timers, pending, nextId, now, closure, backtestCfg,
                   runCfg, runTrades, streakSignal, streakTrades, runs,
                   lastPrice, runValues>>
    /\ Persist

\* The backend, which is not part of these sources: it rejects malformed
\* strategy parameters (a non-positive window) before any computation, with
\* an HTTP error answer whose body is JSON, and answers the others.
Malformed(cfg) == cfg.window <= 0

BackendSignal(cfg) ==
    IF Malformed(cfg) THEN {ErrorBody, Rejected}
    ELSE {SignalData("HOLD", 1000), Rejected}

BackendBacktest(cfg) ==
    IF Malformed(cfg) THEN {"error", "rejected"} ELSE {"data", "rejected"}

\* The component with a user who edits the form, against that backend.
NextForm ==
    \/ Tick
    \/ RunBacktest
    \/ \E i \in DOMAIN backtestCfg :
          \E out \in BackendBacktest(backtestCfg[i]) : BacktestSettle(out)
    \/ StartClick
    \/ RefreshClick
    \/ \E i \in DOMAIN timers : TimerFire(i)
    \/ \E req \in pending : \E d \in BackendSignal(req.cfg) : Settle(req, d)
    \/ Stop
    \/ Reload
    \/ \E t \in Tickers : SetTicker(t)
    \/ \E w \in Windows : SetWindow(w)

SpecForm == Init /\ [][NextForm]_vars

\* ---------------------------------------------------------------- second instance
\* A second TradeSimulator on the same origin (another open page).  It runs
\* the same component on the same localStorage keys; its backtest and its
\* requests in flight are left out, only the answers it applies are kept.
\* The session a mounting instance restores, after its effects ran on it.
Restored(t) ==
    LET saved == LoadSaved(ItemsAtMount)
        eff == AutoExecute(saved.live_mode, saved.live_signal,
                           saved.live_balance, saved.live_position,
                           saved.live_transactions, t)
    IN  [saved EXCEPT !.live_balance = eff.bal, !.live_position = eff.pos,
                      !.live_transactions = eff.txs]

OwnUnchanged ==
    UNCHANGED <<state, timers, pending, nextId, now, formVars, runTrades,
                streakSignal, streakTrades, runs, lastPrice, runValues, bt, sc,
                push, dash, answered>>

\* The second page is opened: load effect, then save effect.
PeerMount ==
    /\ peer = NullVal
    /\ peer' = Some(Restored(now))
    /\ storage' = SaveEffect(TRUE, storage, peer'[1])
    /\ ev' = "peerMount"
    /\ OwnUnchanged

\* The second instance applies the answer to its start or refresh request:
\* set-state calls, auto-execution effect, save effect.
PeerAnswer(kind, d) ==
    /\ peer # NullVal
    /\ peer[1].live_mode = (kind = "refresh")
    /\ Len(peer[1].live_transactions) < MaxRequests
    /\ LET p == peer[1]
           eff == AutoExecute(TRUE, d, p.live_balance, p.live_position,
                              p.live_transactions, now)
       IN  peer' = Some([p EXCEPT
                    !.live_mode = TRUE,
                    !.live_signal = d,
                    !.live_balance = eff.bal,
                    !.live_position = eff.pos,
                    !.live_transactions = eff.txs,
                    !.live_last_update = Some(now),
                    !.live_start_time = IF kind = "start" THEN Some(now) ELSE @,
                    !.live_performance = PerformanceAfterAnswer(kind, @)])
    /\ storage' = SaveEffect(TRUE, storage, peer'[1])
    /\ ev' = "peerAnswer"
    /\ OwnUnchanged

\* stopLiveSimulation in the second instance, then its save effect.
PeerStop ==
    /\ peer # NullVal
    /\ peer[1].live_mode
    /\ LET p == peer[1]
       IN  peer' = Some([p EXCEPT
                    !.live_mode = FALSE,
                    !.live_signal = NullSignal,
                    !.live_balance = ResetPortfolio.bal,
                    !.live_position = ResetPortfolio.pos,
                    !.live_transactions = ResetPortfolio.txs,
                    !.live_last_update = NullVal,
                    !.live_performance =
                        Some(Performance(p.live_balance, p.live_position,
                                         p.live_signal, p.live_transactions,
                                         p.live_start_time, now))])
    /\ storage' = SaveEffect(TRUE, storage, peer'[1])
    /\ ev' = "peerStop"
    /\ OwnUnchanged

\* The answers drawn when two instances run side by side.
TwoAnswers == {SignalData("BUY", 1000), SignalData("SELL", 3000)}

NextTwo ==
    \/ RunBacktest
    \/ BacktestSettle("data")
    \/ StartClick
    \/ RefreshClick
    \/ \E req \in pending : \E d \in TwoAnswers : Settle(req, d)
    \/ Stop
    \/ Reload
    \/ PeerMount
    \/ \E kind \in {"start", "refresh"} : \E d \in TwoAnswers : PeerAnswer(kind, d)
    \/ PeerStop

SpecTwo == Init /\ [][NextTwo]_vars

\* ---------------------------------------------------------------- backend: backtest
\* The indicator library, strategy engine and backtest simulator run in the
\* backend, which is not part of these sources; they follow sections 4.1,
\* 4.3 and 4.4 of the specification.  Bars are numbered from 1.
RECURSIVE SumOf(_)
SumOf(q) == IF q = <<>> THEN 0 ELSE Head(q) + SumOf(Tail(q))

\* sma(closes, window) exists from bar window on; price and SMA are compared
\* without dividing: price > sum / window  iff  price * window > sum.
SmaExists(closes, w, i) == i >= w
WindowSum(closes, w, i) == SumOf(SubSeq(closes, i - w + 1, i))
Above(closes, w, i) ==
    SmaExists(closes, w, i) /\ closes[i] * w > WindowSum(closes, w, i)
Below(closes, w, i) ==
    SmaExists(closes, w, i) /\ closes[i] * w < WindowSum(closes, w, i)

\* Variant: a crossing needs an SMA on the previous bar too.
CrossUp_NeedsHistory(closes, w, i) ==
    /\ Above(closes, w, i)
    /\ SmaExists(closes, w, i - 1)
    /\ ~Above(closes, w, i - 1)

\* The price crosses from <= SMA to > SMA at bar i (from >= SMA to < SMA);
\* a bar before which no SMA exists was not above (not below) it.
CrossUp(closes, w, i) == Above(closes, w, i) /\ ~Above(closes, w, i - 1)
CrossDown(closes, w, i) == Below(closes, w, i) /\ ~Below(closes, w, i - 1)

\* Variant: BUY whatever position is carried from the previous bar.
EngineSignal_AnyPosition(closes, w, i, holding) ==
    IF CrossUp(closes, w, i) THEN "BUY"
    ELSE IF holding /\ CrossDown(closes, w, i) THEN "SELL"
    ELSE "HOLD"

\* Strategy engine, SMA crossover: the signal of bar i, given the position
\* flag carried from the previous bar.
EngineSignal(closes, w, i, holding) ==
    IF ~holding /\ CrossUp(closes, w, i) THEN "BUY"
    ELSE IF holding /\ CrossDown(closes, w, i) THEN "SELL"
    ELSE "HOLD"

\* The position flag the engine carries to the next bar.
EngineHolding(signal, holding) ==
    IF signal = "BUY" THEN TRUE ELSE IF signal = "SELL" THEN FALSE ELSE holding

\* Variant: the shares bought are rounded up.
BacktestShares_Ceil(cash, price) == (cash + price - 1) \div price

\* Backtest simulator: shares = floor(cash / price).
BacktestShares(cash, price) == cash \div price

\* Backtest simulator: the portfolio after the signal of one bar.
BacktestExecute(signal, price, cash, shares, trades, i) ==
    IF signal = "BUY" /\ shares = 0 /\ BacktestShares(cash, price) >= 1
    THEN LET n == BacktestShares(cash, price)
         IN  [cash |-> cash - n * price, shares |-> n,
              trades |-> Append(trades, [type |-> "buy", shares |-> n,
                                         price |-> price, bar |-> i])]
    ELSE IF signal = "SELL" /\ shares > 0
    THEN [cash |-> cash + shares * price, shares |-> 0,
          trades |-> Append(trades, [type |-> "sell", shares |-> shares,
                                     price |-> price, bar |-> i])]
    ELSE [cash |-> cash, shares |-> shares, trades |-> trades]

\* The inputs drawn for run_backtest.
MaxBars == 5                     \* longest series drawn in full
RECURSIVE SeriesOf(_)
SeriesOf(n) ==
    IF n = 0 THEN {<<>>}
    ELSE {Append(q, p) : q \in SeriesOf(n - 1), p \in Prices}
ShortWindows == {2, 3}
RampBars == 22                   \* bars of a rising series for SMA(20)
Ramp(start, step) == [i \in 1..RampBars |-> start + (i - 1) * step]
Ramps == {Ramp(start, step) : start \in {1000, 12000}, step \in {10, 500}}
BacktestInputs ==
    {[closes |-> q, window |-> w] :
        q \in UNION {SeriesOf(n) : n \in 1..MaxBars}, w \in ShortWindows}
    \cup {[closes |-> q, window |-> 20] : q \in Ramps}

\* run_backtest begins: initial capital in cash, no shares, nothing replayed.
BacktestStart(in) ==
    [closes |-> in.closes, window |-> in.window,
     initial_capital |-> DefaultBalance,
     bar |-> 0, holding |-> FALSE, cash |-> DefaultBalance, shares |-> 0,
     trades |-> <<>>, signals |-> <<>>, done |-> FALSE,
     final_balance |-> 0, total_trades |-> 0]

AppUnchanged ==
    UNCHANGED <<state, timers, pending, nextId, now, storage, formVars, peer,
                runTrades, streakSignal, streakTrades, runs, lastPrice,
                runValues, answered, push, dash>>

\* One bar is replayed: engine signal, then the simulator's execution.
BacktestBar ==
    /\ bt # NullVal
    /\ bt[1].bar < Len(bt[1].closes)
    /\ LET b == bt[1]
           i == b.bar + 1
           signal == EngineSignal(b.closes, b.window, i, b.holding)
           after == BacktestExecute(signal, b.closes[i], b.cash, b.shares,
                                    b.trades, i)
       IN  bt' = Some([b EXCEPT !.bar = i,
                                !.holding = EngineHolding(signal, b.holding),
                                !.cash = after.cash,
                                !.shares = after.shares,
                                !.trades = after.trades,
                                !.signals = Append(b.signals, signal)])
    /\ ev' = "backtestBar"
    /\ UNCHANGED sc
    /\ AppUnchanged

\* The series is exhausted: the result is produced.
BacktestEnd ==
    /\ bt # NullVal
    /\ bt[1].bar = Len(bt[1].closes)
    /\ ~bt[1].done
    /\ LET b == bt[1]
       IN  bt' = Some([b EXCEPT
                    !.done = TRUE,
                    !.final_balance = b.cash + b.shares * b.closes[Len(b.closes)],
                    !.total_trades = Len(b.trades)])
    /\ ev' = "backtestEnd"
    /\ UNCHANGED sc
    /\ AppUnchanged

InitBacktest ==
    /\ InitApp
    /\ bt \in {Some(BacktestStart(in)) : in \in BacktestInputs}
    /\ sc = NullVal
    /\ push = NullVal
    /\ dash = NullVal

NextBacktest == BacktestBar \/ BacktestEnd

SpecBacktest == InitBacktest /\ [][NextBacktest]_vars

\* ---------------------------------------------------------------- backend: scores
\* The score calculators and the composite aggregator run in the backend,
\* which is not part of these sources; they follow section 4.2 of the
\* specification.  A score that is not an integer is a reduced fraction.
MetricNames == {"pe", "market_cap", "profit_margin", "revenue_growth"}
Present(metrics) == {m \in MetricNames : metrics[m] # NullVal}
RECURSIVE SumOver(_, _)
SumOver(metrics, names) ==
    IF names = {} THEN 0
    ELSE LET m == CHOOSE x \in names : TRUE
         IN  metrics[m][1] + SumOver(metrics, names \ {m})

\* Variant: an absent metric counts as zero.
FinancialScore_AbsentAsZero(metrics) ==
    Some(Frac(SumOver(metrics, Present(metrics)), Cardinality(MetricNames)))

\* Financial score: the arithmetic mean of the metrics that are present;
\* undefined (null) when all four are absent.
FinancialScore(metrics) ==
    IF Present(metrics) = {} THEN NullVal
    ELSE Some(Frac(SumOver(metrics, Present(metrics)),
                   Cardinality(Present(metrics))))

\* round(n / d) for n >= 0, d > 0: the nearest integer; which way a tie goes
\* depends on the rounding function of the implementation.
Rounds(n, d) ==
    LET q == n \div d
        r == n % d
    IN  IF 2 * r < d THEN {q} ELSE IF 2 * r > d THEN {q + 1} ELSE {q, q + 1}
Clamp(x) == IF x < 0 THEN 0 ELSE IF x > 100 THEN 100 ELSE x

\* Variant: the sentiment term is left out.
Weighted_NoSentiment(technical, financial, sentiment) ==
    Frac(4 * technical.num * financial.den + 4 * financial.num * technical.den,
         10 * technical.den * financial.den)

\* 0.40 technical + 0.40 financial + 0.20 sentiment, as a fraction.
Weighted(technical, financial, sentiment) ==
    Frac(4 * technical.num * financial.den * sentiment.den
           + 4 * financial.num * technical.den * sentiment.den
           + 2 * sentiment.num * technical.den * financial.den,
         10 * technical.den * financial.den * sentiment.den)

\* Composite aggregator: round(...), clamped to [0,100].
Composite(technical, financial, sentiment) ==
    LET w == Weighted(technical, financial, sentiment)
    IN  {Clamp(c) : c \in Rounds(w.num, w.den)}

\* The inputs drawn: metric scores as the tables of the domain document give
\* them, or absent; sub-scores over the whole range [0,100].
Maybe(scores) == {NullVal} \cup {Some(x) : x \in scores}
MetricInputs ==
    [pe : Maybe({60, 100}), market_cap : Maybe({90, 45}),
     profit_margin : Maybe({95, 20}), revenue_growth : Maybe({70, 10})]
SubScores ==
    {Frac(0, 1), Frac(1, 2), Frac(262, 5), Frac(66, 1), Frac(315, 4),
     Frac(95, 1), Frac(199, 2), Frac(100, 1)}
ScoreInputs ==
    {[kind |-> "financial", metrics |-> f, done |-> FALSE] : f \in MetricInputs}
    \cup {[kind |-> "composite", technical |-> t, financial |-> f,
           sentiment |-> x, done |-> FALSE] :
             t \in SubScores, f \in SubScores, x \in SubScores}

ScoreUnchanged ==
    /\ AppUnchanged
    /\ UNCHANGED bt

\* The financial score of the metrics is computed.
ComputeFinancial ==
    /\ sc # NullVal
    /\ sc[1].kind = "financial"
    /\ ~sc[1].done
    /\ sc' = Some([kind |-> "financial", metrics |-> sc[1].metrics,
                   done |-> TRUE, score |-> FinancialScore(sc[1].metrics)])
    /\ ev' = "financialScore"
    /\ ScoreUnchanged

\* The composite score of three sub-scores is computed.
ComputeComposite ==
    /\ sc # NullVal
    /\ sc[1].kind = "composite"
    /\ ~sc[1].done
    /\ \E c \in Composite(sc[1].technical, sc[1].financial, sc[1].sentiment) :
           sc' = Some([kind |-> "composite", technical |-> sc[1].technical,
                       financial |-> sc[1].financial,
                       sentiment |-> sc[1].sentiment,
                       done |-> TRUE, score |-> c])
    /\ ev' = "compositeScore"
    /\ ScoreUnchanged

InitScore ==
    /\ InitApp
    /\ bt = NullVal
    /\ sc \in {Some(in) : in \in ScoreInputs}
    /\ push = NullVal
    /\ dash = NullVal

NextScore == ComputeFinancial \/ ComputeComposite

SpecScore == InitScore /\ [][NextScore]_vars

\* ================================================================ claims
IsAnswer(e) == e \in {"startAnswer", "refreshAnswer"}

\* A trade of the given type was executed by this step.
Executed(type) ==
    /\ Len(liveTransactions') = Len(liveTransactions) + 1
    /\ Head(liveTransactions').type = type

NoTrade == liveTransactions' = liveTransactions

\* C1: in a live run, over any sequence of answers that all carry the same
\* signal value at most one trade is appended to the log; a refresh answering
\* BUY while shares are held appends none.
C1_SameSignalAtMostOneTrade ==
    /\ [](streakTrades <= 1)
    /\ [][(ev' = "refreshAnswer" /\ liveMode /\ liveSignal'.signal = "BUY"
           /\ livePosition > 0) => NoTrade]_vars

\* C1 witness: a refresh answered BUY after the BUY that bought the position
\* held, both in one streak of BUY answers.
C1_Witness ==
    /\ ev = "refreshAnswer" /\ liveMode
    /\ liveSignal.signal = "BUY" /\ streakSignal = "BUY"
    /\ streakTrades = 1 /\ livePosition > 0
    /\ Len(runTrades) = 1
    /\ runTrades[1].timestamp < lastUpdateTime[1]

\* A signal is answered to the run while it is active (the start answer that
\* turns live mode on included).
AnswerToActiveRun == IsAnswer(ev') /\ liveMode' /\ liveSignal'.kind = "data"

\* C2 (as stated): on every answer to an active run, BUY executes iff
\* signal = BUY and shares_held = 0, SELL executes iff signal = SELL and
\* shares_held > 0, HOLD executes nothing.
C2_ExecutesIffSignalAndPosition ==
    [][AnswerToActiveRun =>
        /\ Executed("buy") <=> (liveSignal'.signal = "BUY" /\ livePosition = 0)
        /\ Executed("sell") <=> (liveSignal'.signal = "SELL" /\ livePosition > 0)
        /\ liveSignal'.signal = "HOLD" => NoTrade]_vars

\* C2 (amended): on every answer to an active run, BUY executes iff
\* signal = BUY, shares_held = 0 and the cash buys at least one share
\* (cash >= price); SELL executes iff signal = SELL and shares_held > 0; HOLD
\* executes nothing.
C2_ExecutesIffSignalPositionAndCash ==
    [][AnswerToActiveRun =>
        /\ Executed("buy") <=> (/\ liveSignal'.signal = "BUY"
                                /\ livePosition = 0
                                /\ liveBalance >= liveSignal'.current_price)
        /\ Executed("sell") <=> (liveSignal'.signal = "SELL" /\ livePosition > 0)
        /\ liveSignal'.signal = "HOLD" => NoTrade]_vars

\* C2 witness: BUY answered to a flat active run whose cash is below the price:
\* nothing was bought.
C2_Witness ==
    /\ IsAnswer(ev) /\ liveMode
    /\ liveSignal.signal = "BUY" /\ livePosition = 0
    /\ liveBalance < liveSignal.current_price
    /\ lastUpdateTime = Some(now)

\* C3: in a live run cash >= 0 and shares_held is an integer >= 0; a BUY buys
\* floor(cash / price) shares and debits their cost, which is at most the
\* cash; a SELL sells the whole position and leaves shares_held = 0.
C3_CashAndSharesNonNegative ==
    /\ [](liveBalance >= 0 /\ livePosition \in Nat)
    /\ [][(Executed("buy") =>
            LET tx == Head(liveTransactions')
            IN  /\ tx.shares * tx.price <= liveBalance
                /\ liveBalance < (tx.shares + 1) * tx.price
                /\ liveBalance' = liveBalance - tx.shares * tx.price
                /\ livePosition' = livePosition + tx.shares)
          /\ (Executed("sell") =>
            LET tx == Head(liveTransactions')
            IN  /\ tx.shares = livePosition
                /\ livePosition' = 0
                /\ liveBalance' = liveBalance + tx.shares * tx.price)]_vars

\* C3 witness: a position bought with part of the cash was sold whole.
C3_Witness ==
    /\ liveMode /\ livePosition = 0
    /\ Len(liveTransactions) = 2
    /\ liveTransactions[1].type = "sell"
    /\ liveTransactions[2].type = "buy"
    /\ liveTransactions[2].balance_after > 0
    /\ liveTransactions[1].shares = liveTransactions[2].shares

SessionFields == <<liveSignal, lastUpdateTime, liveBalance, livePosition,
                   liveTransactions>>

\* C4 (as stated): a refresh whose fetch fails - the source is unreachable or
\* times out (the fetch rejects) or answers with an error - leaves the signal,
\* the current price, the last-updated time, cash, shares and the trade log as
\* they were.
C4_FailedRefreshChangesNothing ==
    [][(\/ ev' = "refreshFailed"
        \/ (ev' = "refreshAnswer" /\ liveSignal'.kind = "error"))
       => UNCHANGED SessionFields]_vars

\* C5 (as stated): at most one refresh request is in flight at any moment.
C5_SingleFlight ==
    Cardinality({r \in pending : r.kind = "refresh"}) <= 1

\* C6 (as stated): while the run is stopped no interval fires, no refresh is
\* issued, and no answer changes the signal, the last-updated time, the
\* portfolio or the trade log.
C6_NoExecutionAfterStop ==
    [][(~liveMode /\ ~liveMode') =>
        /\ ev' \notin {"timerFire", "refreshClick"}
        /\ UNCHANGED SessionFields]_vars

\* C7: at most one auto-refresh interval is set, and one is set exactly while
\* live mode is on.
C7_OneTimerIffLive ==
    /\ Len(timers) <= 1
    /\ (Len(timers) = 1) <=> liveMode

\* C7 witness: a second run, reloaded while live, has its one interval.
C7_Witness ==
    /\ ev = "reload" /\ liveMode /\ runs >= 2 /\ Len(timers) = 1

\* C8: when live mode turns on by a start answer the portfolio is the initial
\* one (cash 10,000, no shares, empty log); the state the answer leaves is
\* that portfolio after at most the one trade the answered signal executes.
C8_RunBeginsFromInitialPortfolio ==
    [][(ev' = "startAnswer" /\ ~liveMode /\ liveMode') =>
        /\ liveBalance = liveInitialCapital
        /\ livePosition = 0
        /\ liveTransactions = <<>>
        /\ Len(liveTransactions') <= 1
        /\ liveTransactions' = <<>> =>
             (liveBalance' = liveInitialCapital /\ livePosition' = 0)
        /\ liveTransactions' # <<>> =>
             (liveBalance' + livePosition' * liveSignal'.current_price
                = liveInitialCapital)]_vars

\* C8 witness: a second run has begun, after the first was stopped.
C8_Witness ==
    /\ ev = "startAnswer" /\ liveMode /\ runs >= 2
    /\ liveStartTime = Some(now)
    /\ liveTransactions = <<>> /\ liveBalance = liveInitialCapital
    /\ storage.live_balance = Stringify(liveInitialCapital)

\* C9: right after stop live mode is off, the signal and the last-updated time
\* are cleared, cash is 10,000, no shares are held and the log is empty, and
\* the summary stop produced lists every trade of the stopped run, oldest
\* first.
C9_StopResetsSession ==
    ev = "stop" =>
        /\ ~liveMode
        /\ liveSignal = NullSignal
        /\ lastUpdateTime = NullVal
        /\ liveBalance = liveInitialCapital
        /\ livePosition = 0
        /\ liveTransactions = <<>>
        /\ livePerformance # NullVal
        /\ livePerformance[1].trades = runTrades
        /\ livePerformance[1].total_trades = Len(runTrades)

\* C9 witness: a run that bought and sold was stopped.
C9_Witness ==
    ev = "stop" /\ Len(runTrades) >= 2

\* C10: during a live run every step other than stop leaves the log as it was
\* or puts exactly one new record in front of the unchanged older records,
\* and the log holds the executed trades of the run, newest first.
C10_LogAppendOnly ==
    /\ [](liveMode => liveTransactions = Reverse(runTrades))
    /\ [][(liveMode /\ ev' # "stop") =>
            \/ liveTransactions' = liveTransactions
            \/ /\ liveTransactions' # <<>>
               /\ Tail(liveTransactions') = liveTransactions
               /\ Head(liveTransactions') = runTrades'[Len(runTrades')]]_vars

\* C10 witness: a refresh failed in a run whose log holds two trades.
C10_Witness ==
    /\ liveMode /\ ev = "refreshFailed" /\ Len(liveTransactions) = 2

\* The cash before the trade recorded at position i of the log (newest
\* first): the balance_after of the record that follows it, or the initial
\* capital for the oldest.
CashBefore(txs, i) ==
    IF i = Len(txs) THEN liveInitialCapital ELSE txs[i + 1].balance_after

\* C11: every record of the live trade log has an integer share count >= 1,
\* and its balance_after is the cash right after that trade: the cash before
\* it minus (buy) or plus (sell) shares * price, and for the newest record the
\* current cash.
C11_RecordsSharesAndBalanceAfter ==
    liveMode =>
        /\ \A i \in DOMAIN liveTransactions :
              LET tx == liveTransactions[i]
              IN  /\ tx.shares \in Nat /\ tx.shares >= 1
                  /\ tx.balance_after =
                        IF tx.type = "buy"
                        THEN CashBefore(liveTransactions, i) - tx.shares * tx.price
                        ELSE CashBefore(liveTransactions, i) + tx.shares * tx.price
        /\ liveTransactions # <<>> =>
              Head(liveTransactions).balance_after = liveBalance

\* C11 witness: a log of three records, the newest a buy that left cash.
C11_Witness ==
    /\ liveMode /\ Len(liveTransactions) = 3
    /\ Head(liveTransactions).type = "buy"
    /\ liveBalance > 0 /\ livePosition > 0


\* A step of stopLiveSimulation.
StopStep == liveMode /\ ev' = "stop"

\* C13: on stop, the final balance of the summary is cash + shares held * the
\* current price most recently received by the run, and total_return_percent
\* is (final balance - 10000) / 10000 * 100, whatever state the run is in.
C13_FinalBalanceAtLastReceivedPrice ==
    [][StopStep =>
         LET perf == livePerformance'[1]
         IN  /\ perf.final_balance = liveBalance + livePosition * lastPrice
             /\ perf.total_return_percent =
                   Frac((perf.final_balance - liveInitialCapital) * 100,
                        liveInitialCapital)]_vars


\* The equity curve of the run just stopped, rebuilt from its summary.
StoppedCurve ==
    EquityCurve(Reverse(livePerformance[1].trades), liveStartTime)

\* The highest value among the first i points of a curve.
RunningPeak(curve, i) ==
    CHOOSE v \in {curve[j].value : j \in 1..i} :
        \A j \in 1..i : curve[j].value <= v

\* The drawdown of point i of a curve against its running peak, in percent.
DrawdownAt(curve, i) ==
    Frac((curve[i].value - RunningPeak(curve, i)) * 100, RunningPeak(curve, i))

\* C14: the max drawdown reported on stop is <= 0, is 0 when the equity curve
\* never decreases, and is the minimum over the curve's points of
\* (value - peak) / peak * 100, peak being the running maximum up to and
\* including the point.
C14_MaxDrawdownIsRunningPeakMinimum ==
    ev = "stop" =>
        LET curve == StoppedCurve
            reported == livePerformance[1].max_drawdown_percent
        IN  /\ reported.num <= 0
            /\ (\A i \in 2..Len(curve) : curve[i].value >= curve[i - 1].value)
                  => reported.num = 0
            /\ \E i \in DOMAIN curve : reported = DrawdownAt(curve, i)
            /\ \A i \in DOMAIN curve : ~FracLess(DrawdownAt(curve, i), reported)

\* A run stopped after a buy at 3000 and a sale at 1000: drawdown of 60 %.
C14_Witness ==
    /\ ev = "stop"
    /\ Len(StoppedCurve) = 3
    /\ livePerformance[1].max_drawdown_percent = Frac(0 - 60, 1)


\* C15: the equity curve rebuilt on stop has the initial capital as its first
\* point and then one point per recorded trade, oldest first; the point of a
\* trade is the cash after it plus the shares held after it times its price.
C15_CurveFollowsTrades ==
    ev = "stop" =>
        LET curve == StoppedCurve
        IN  /\ Len(curve) = Len(runTrades) + 1
            /\ curve[1].value = liveInitialCapital
            /\ \A i \in DOMAIN runTrades :
                  /\ curve[i + 1].value = runValues[i]
                  /\ curve[i + 1].timestamp = Some(runTrades[i].timestamp)

\* A run stopped after three trades whose points differ.
C15_Witness ==
    /\ ev = "stop"
    /\ Len(runTrades) = 3
    /\ runValues[1] # runValues[2]

\* C16: the trades of the summary are the trades executed during the stopped
\* run, each once and oldest first, and total_trades is their number.
C16_SummaryListsRunTradesOldestFirst ==
    ev = "stop" =>
        LET perf == livePerformance[1]
        IN  /\ perf.trades = runTrades
            /\ perf.total_trades = Len(runTrades)
            /\ \A i, j \in DOMAIN perf.trades :
                  i < j => perf.trades[i].timestamp <= perf.trades[j].timestamp

\* A run stopped after trades executed at different times.
C16_Witness ==
    /\ ev = "stop"
    /\ Len(runTrades) >= 2
    /\ livePerformance[1].trades[1].timestamp
          < livePerformance[1].trades[2].timestamp


\* C17 as stated: once computed by stop, the summary stays as it is, whatever
\* happens later (refresh answer, portfolio reset, reload, subsequent start).
C17_SummaryNeverChanges ==
    [][livePerformance # NullVal /\ ~StopStep
          => livePerformance' = livePerformance]_vars

\* C17: once computed by stop, no field of the summary changes; the summary is
\* only discarded as a whole, by the answer to a subsequent start or by
\* Clear Results.
C17_SummaryUnchangedUntilDiscarded ==
    [][livePerformance # NullVal /\ ~StopStep
          => \/ livePerformance' = livePerformance
             \/ /\ livePerformance' = NullVal
                /\ ev' \in {"startAnswer", "clearResults"}]_vars

\* A refresh answered after the stop has left the summary of the run in place.
C17_Witness ==
    /\ ev = "refreshAnswer"
    /\ ~liveMode
    /\ livePerformance # NullVal
    /\ livePerformance[1].trades = runTrades
    /\ runTrades # <<>>


\* C18: the auto-refresh timer restarts after each refresh: an automatic
\* refresh is issued 120 seconds after the refresh before it, manual or
\* automatic, which is when the countdown derived from lastUpdateTime is 0.
C18_TimerRestartsAfterRefresh ==
    ev = "timerFire" /\ lastUpdateTime # NullVal
        => now = lastUpdateTime[1] + AutoRefreshMs


\* A refresh request was issued by this step (Refresh button or interval).
RefreshIssued == ev' \in {"refreshClick", "timerFire"}

\* C12: throughout a live run, every refresh request, manual or timer-driven,
\* carries the ticker, strategy and parameters of the start request that began
\* the run, even if the form is edited while the run is active.
C12_RequestsCarryRunConfig ==
    [][RefreshIssued => \A req \in pending' \ pending : req.cfg = runCfg]_vars

\* The answer of a signal request, or of a backtest request, whose strategy
\* parameters are malformed is handled by this step.
MalformedSettled ==
    \/ /\ ev' \in {"startAnswer", "refreshAnswer", "startFailed", "refreshFailed"}
       /\ \E req \in pending \ pending' : Malformed(req.cfg)
    \/ /\ ev' = "backtestSettle"
       /\ backtestCfg # NullVal
       /\ backtestCfg' = NullVal
       /\ Malformed(backtestCfg[1])

\* C20: a start, refresh or backtest request with malformed strategy
\* parameters is rejected and changes nothing: live mode, signal, portfolio,
\* trade log and backtest result stay as they were.
C20_MalformedRequestChangesNothing ==
    [][MalformedSettled =>
          UNCHANGED <<liveMode, liveSignal, liveBalance, livePosition,
                      liveTransactions, backtestResult>>]_vars


\* The session of this instance is what the step leaves in place.
OwnSessionKept ==
    /\ liveMode' = liveMode
    /\ liveSignal' = liveSignal
    /\ liveBalance' = liveBalance
    /\ livePosition' = livePosition
    /\ liveTransactions' = liveTransactions

\* C19: two instances running at the same time share no mutable state: a
\* reload of this instance restores its own session, an instance that opens
\* starts from its own initial portfolio, and no step of the other instance
\* overwrites what this one has saved.
C19_InstancesShareNothing ==
    [][/\ ev' = "reload" => OwnSessionKept
       /\ ev' = "peerMount" =>
             /\ peer'[1].live_signal = NullSignal
             /\ peer'[1].live_balance = DefaultBalance
             /\ peer'[1].live_position = 0
             /\ peer'[1].live_transactions = <<>>
       /\ ev' \in {"peerMount", "peerAnswer", "peerStop"} =>
             storage' = storage]_vars


\* The persisted fields of this instance are what the step leaves in place.
SessionRestored ==
    /\ form' = form
    /\ liveMode' = liveMode
    /\ liveSignal' = liveSignal
    /\ liveBalance' = liveBalance
    /\ livePosition' = livePosition
    /\ liveTransactions' = liveTransactions
    /\ lastUpdateTime' = lastUpdateTime
    /\ liveStartTime' = liveStartTime
    /\ livePerformance' = livePerformance

\* C21: the session survives a restart: a reload restores ticker, strategy,
\* parameters, live mode, signal, cash, shares, trade log, last-update time,
\* start time and summary to the values saved, and the saved items are not
\* overwritten by defaults on the way.
C21_ReloadRestoresSavedSession ==
    [][ev' = "reload" => SessionRestored /\ storage' = storage]_vars

\* A live run with a trade, refreshed after its start, has been reloaded.
C21_Witness ==
    /\ ev = "reload"
    /\ liveMode
    /\ liveTransactions # <<>>
    /\ lastUpdateTime # liveStartTime
    /\ storage.live_start_time = StringifyDate(liveStartTime)


\* ---------------------------------------------------------------- C22..C25
Replayed == bt[1]
NoCrossover(closes, w) ==
    \A i \in 1..Len(closes) : ~CrossUp(closes, w, i) /\ ~CrossDown(closes, w, i)
SharesHeldBefore(trades, k) ==
    IF k > 1 /\ trades[k - 1].type = "buy" THEN trades[k - 1].shares ELSE 0

\* C22: the backtest never lets cash go negative, whatever signal a strategy
\* gives on the next bar, and never sells more shares than are held; when the
\* series has no crossover event the result has total_trades = 0 and
\* final_balance = initial_capital.
C22_BacktestCashAndSharesSafe ==
    bt # NullVal =>
        /\ Replayed.cash >= 0
        /\ Replayed.shares >= 0
        /\ \A k \in DOMAIN Replayed.trades :
               /\ Replayed.trades[k].shares >= 1
               /\ Replayed.trades[k].type = "sell" =>
                      Replayed.trades[k].shares
                          <= SharesHeldBefore(Replayed.trades, k)
        /\ Replayed.bar < Len(Replayed.closes) =>
               \A signal \in Signals :
                   LET after == BacktestExecute(signal,
                                    Replayed.closes[Replayed.bar + 1],
                                    Replayed.cash, Replayed.shares,
                                    Replayed.trades, Replayed.bar + 1)
                   IN  /\ after.cash >= 0
                       /\ after.shares >= 0
                       /\ after.shares = 0 \/ Replayed.shares = 0
                                           \/ after.shares = Replayed.shares
        /\ Replayed.done /\ NoCrossover(Replayed.closes, Replayed.window) =>
               /\ Replayed.total_trades = 0
               /\ Replayed.final_balance = Replayed.initial_capital

C22_Witness ==
    /\ bt # NullVal
    /\ Replayed.done
    /\ Replayed.total_trades >= 2
    /\ Replayed.trades[2].type = "sell"
    /\ Replayed.cash # Replayed.initial_capital

StrictlyIncreasing(closes) ==
    \A i \in 1..(Len(closes) - 1) : closes[i] < closes[i + 1]
CountOf(q, x) == Cardinality({i \in DOMAIN q : q[i] = x})
TradesOf(trades, type) == SelectSeq(trades, LAMBDA t : t.type = type)

RisingSeries ==
    /\ bt # NullVal
    /\ Replayed.done
    /\ StrictlyIncreasing(Replayed.closes)
    /\ ~Above(Replayed.closes, Replayed.window, 1)
    /\ Above(Replayed.closes, Replayed.window, Len(Replayed.closes))
BalanceIsSharesAndCash ==
    /\ Replayed.final_balance =
           Replayed.shares * Replayed.closes[Len(Replayed.closes)]
               + Replayed.cash
    /\ Replayed.shares =
           SumOf([k \in DOMAIN Replayed.trades |-> Replayed.trades[k].shares])

NonHold(signals) == SelectSeq(signals, LAMBDA x : x # "HOLD")

\* C25: the engine's signal is HOLD on every bar before the indicator has
\* enough history; BUY is emitted only when the position carried from the
\* previous bar is flat and SELL only when it is holding, so the non-HOLD
\* signals alternate BUY, SELL, BUY, ... starting with BUY.
C25_SignalsAlternate ==
    bt # NullVal =>
        /\ \A i \in DOMAIN Replayed.signals :
               ~SmaExists(Replayed.closes, Replayed.window, i)
                   => Replayed.signals[i] = "HOLD"
        /\ \A k \in DOMAIN NonHold(Replayed.signals) :
               NonHold(Replayed.signals)[k]
                   = IF k % 2 = 1 THEN "BUY" ELSE "SELL"
        /\ Replayed.holding = (Len(NonHold(Replayed.signals)) % 2 = 1)

C25_Witness ==
    /\ bt # NullVal
    /\ Replayed.window = 3
    /\ Len(Replayed.signals) >= 2
    /\ Replayed.signals[1] = "HOLD"
    /\ Replayed.signals[2] = "HOLD"
    /\ NonHold(Replayed.signals) = <<"BUY", "SELL">>


\* ---------------------------------------------------------------- C26, C27
Scored == sc[1]
Hundred == Frac(100, 1)
Zero == Frac(0, 1)

\* C26: for sub-scores in [0,100] the composite score is an integer in
\* [0,100]; all sub-scores 100 give 100 and all sub-scores 0 give 0.
C26_CompositeInRange ==
    (sc # NullVal /\ Scored.kind = "composite" /\ Scored.done) =>
        /\ Scored.score \in 0..100
        /\ \A c \in Rounds(Weighted(Scored.technical, Scored.financial,
                                    Scored.sentiment).num,
                           Weighted(Scored.technical, Scored.financial,
                                    Scored.sentiment).den) : c \in 0..100
        /\ (Scored.technical = Hundred /\ Scored.financial = Hundred
                /\ Scored.sentiment = Hundred) => Scored.score = 100
        /\ (Scored.technical = Zero /\ Scored.financial = Zero
                /\ Scored.sentiment = Zero) => Scored.score = 0

C26_Witness ==
    /\ sc # NullVal
    /\ Scored.kind = "composite"
    /\ Scored.done
    /\ Scored.technical = Hundred
    /\ Scored.financial = Hundred
    /\ Scored.sentiment = Hundred
    /\ Scored.score = 100

MetricValues(metrics) == {metrics[m][1] : m \in Present(metrics)}

SuccessfulRefresh == ev' = "refreshAnswer" /\ liveSignal'.kind = "data"
PortfolioUnchanged ==
    /\ liveBalance' = liveBalance
    /\ livePosition' = livePosition
    /\ liveTransactions' = liveTransactions

\* C28: the answer to a refresh replaces the live signal and the last-updated
\* time and leaves start time, live mode, summary and backtest result as they
\* were; cash, shares held and the trade log stay as they were unless the new
\* signal is executed as a trade, and in every step cash and shares held
\* change only with an executed trade or with stop.
C28_RefreshFrame ==
    [][/\ SuccessfulRefresh =>
            /\ lastUpdateTime' = Some(now)
            /\ liveStartTime' = liveStartTime
            /\ liveMode' = liveMode
            /\ livePerformance' = livePerformance
            /\ backtestResult' = backtestResult
            /\ form' = form
            /\ PortfolioUnchanged \/ Executed("buy") \/ Executed("sell")
            /\ ~liveMode => PortfolioUnchanged
       /\ (liveBalance' # liveBalance \/ livePosition' # livePosition) =>
            \/ IsAnswer(ev') /\ (Executed("buy") \/ Executed("sell"))
            \/ ev' = "stop"
      ]_vars

C28_Witness ==
    /\ ev = "refreshAnswer"
    /\ liveMode
    /\ liveSignal.kind = "data"
    /\ liveSignal.signal = "HOLD"
    /\ livePosition > 0
    /\ lastUpdateTime # liveStartTime
    /\ Len(liveTransactions) = 1


\* ---------------------------------------------------------------- C29, C30
StartFailed ==
    \/ ev' = "startFailed"
    \/ ev' = "startAnswer" /\ liveSignal'.kind = "error"

\* C29: when the start request fails (the fetch is rejected, or the answer is
\* an HTTP error) no run begins: live mode, signal, start time, cash, shares
\* and the trade log stay as they were.
C29_FailedStartBeginsNoRun ==
    [][StartFailed =>
         /\ liveMode' = liveMode
         /\ liveSignal' = liveSignal
         /\ liveStartTime' = liveStartTime
         /\ PortfolioUnchanged]_vars

\* C30: the summary of a stopped run in which no trade was executed has
\* total_trades = 0, no trades, max drawdown 0, Sharpe ratio 0, total return
\* 0 % and final balance 10,000.
C30_NoTradeSummary ==
    (ev = "stop" /\ runTrades = <<>>) =>
        /\ livePerformance # NullVal
        /\ livePerformance[1].total_trades = 0
        /\ livePerformance[1].trades = <<>>
        /\ livePerformance[1].max_drawdown_percent = Frac(0, 1)
        /\ livePerformance[1].sharpe_ratio = [kind |-> "number", sign |-> 0]
        /\ livePerformance[1].total_return_percent = Frac(0, 1)
        /\ livePerformance[1].final_balance = liveInitialCapital
        /\ livePerformance[1].initial_capital = liveInitialCapital

C30_Witness ==
    /\ ev = "stop"
    /\ runTrades = <<>>
    /\ runs >= 1
    /\ livePerformance # NullVal
    /\ livePerformance[1].duration_seconds > 0
    /\ livePerformance[1].final_balance = liveInitialCapital


\* ---------------------------------------------------------------- C32, C33
Chronological == Reverse(liveTransactions)

\* C32: the trade log of a live run, read oldest first, alternates buy, sell,
\* buy, ... starting with a buy; shares are held exactly when the newest trade
\* is a buy, and every sell has the share count of the buy just before it.
C32_LogAlternates ==
    /\ \A k \in DOMAIN Chronological :
           /\ Chronological[k].type = IF k % 2 = 1 THEN "buy" ELSE "sell"
           /\ k % 2 = 0 => Chronological[k].shares = Chronological[k - 1].shares
    /\ (livePosition > 0)
           = (liveTransactions # <<>> /\ Head(liveTransactions).type = "buy")
    /\ livePosition > 0 => livePosition = Head(liveTransactions).shares

C32_Witness ==
    /\ liveMode
    /\ Len(liveTransactions) = 3
    /\ livePosition > 0
    /\ Chronological[1].shares # Chronological[3].shares
    /\ Chronological[2].shares = Chronological[1].shares

HeldBefore(tx) == IF tx.type = "buy" THEN 0 ELSE tx.shares
HeldAfter(tx) == IF tx.type = "buy" THEN tx.shares ELSE 0

\* C33: a live trade at price p leaves cash + shares held * p as it was (for
\* every record of the log: the cash and shares after it against the cash and
\* shares before it, the newest record giving the current cash and shares),
\* and every point of the equity curve rebuilt on stop for a BUY has the value
\* of the point before it.
C33_TradeKeepsValue ==
    /\ liveMode =>
          /\ \A i \in DOMAIN liveTransactions :
                LET tx == liveTransactions[i]
                IN  tx.balance_after + HeldAfter(tx) * tx.price
                        = CashBefore(liveTransactions, i)
                              + HeldBefore(tx) * tx.price
          /\ liveTransactions # <<>> =>
                /\ Head(liveTransactions).balance_after = liveBalance
                /\ HeldAfter(Head(liveTransactions)) = livePosition
    /\ ev = "stop" =>
          \A i \in DOMAIN runTrades :
              runTrades[i].type = "buy"
                  => StoppedCurve[i + 1].value = StoppedCurve[i].value

C33_Witness ==
    /\ ev = "stop"
    /\ Len(runTrades) = 3
    /\ runTrades[3].type = "buy"
    /\ runTrades[3].shares > 1
    /\ StoppedCurve[4].value = StoppedCurve[3].value
    /\ StoppedCurve[3].value # StoppedCurve[2].value


\* ---------------------------------------------------------------- C34, C35
\* A live run observed from just after its start request was answered with
\* HOLD at the lowest price: the session is saved, the interval is armed and
\* nothing is in flight.  Request ids count from this point.
RunningSession ==
    [trade_form |-> DefaultForm, live_mode |-> TRUE,
     live_signal |-> [kind |-> "data", signal |-> "HOLD", current_price |-> 1000],
     live_balance |-> liveInitialCapital, live_position |-> 0,
     live_transactions |-> <<>>, live_last_update |-> Some(0),
     live_start_time |-> Some(0), live_performance |-> NullVal]

InitLate ==
    /\ liveMode = TRUE
    /\ liveSignal = RunningSession.live_signal
    /\ liveBalance = liveInitialCapital
    /\ livePosition = 0
    /\ liveTransactions = <<>>
    /\ loadingLiveSignal = FALSE
    /\ lastUpdateTime = Some(0)
    /\ liveStartTime = Some(0)
    /\ livePerformance = NullVal
    /\ backtestResult = "data"
    /\ loadingBacktest = FALSE
    /\ timers = <<AutoRefreshMs>>
    /\ pending = {}
    /\ nextId = 1
    /\ now = 0
    /\ form = DefaultForm
    /\ closure = DefaultForm
    /\ backtestCfg = NullVal
    /\ runCfg = DefaultForm
    /\ peer = NullVal
    /\ storage = SaveSession(RunningSession)
    /\ ev = "startAnswer"
    /\ runTrades = <<>>
    /\ streakSignal = "HOLD"
    /\ streakTrades = 0
    /\ runs = 1
    /\ lastPrice = 1000
    /\ runValues = <<>>
    /\ answered = 0
    /\ bt = NullVal
    /\ sc = NullVal
    /\ push = NullVal
    /\ dash = NullVal

SpecLate == InitLate /\ [][Next]_vars

\* The requests whose answer this step applies as the live signal.
Applied ==
    IF IsAnswer(ev') THEN pending \ pending' ELSE {}

\* C34: the answer to a refresh issued in one live run is never applied as the
\* signal of a later run (nor executed as a trade there).
C34_NoAnswerAcrossRuns ==
    [][\A req \in Applied :
          (req.kind = "refresh" /\ liveMode') => req.run = runs]_vars

\* C35: within a live run, an answer is never applied over the answer to a
\* request issued after its own.
C35_NewestAnswerWins ==
    [][\A req \in Applied :
          (liveMode /\ req.run = runs) => answered < req.id]_vars

\* ================================================================ push hook
\* usePushNotifications as the Dashboard uses it.  push is a record of
\*   the browser: supported, permission, browserSub (the push manager holds a
\*     subscription), optOut (the localStorage flag);
\*   st: the hook state of the mounted Dashboard;
\*   mounted: the number of the mounted Dashboard (a tab switch unmounts it and
\*     mounts the next; calls of an unmounted one run on, their setState is
\*     dropped);
\*   procs: per Dashboard, the async call it is in: kind, position, locals;
\*   optOutBy: history, how the flag came to be set.
\* isPWA and thresholds are display only and left out: a thresholds answer
\* that is not ok is like one that is, a rejected one goes to the catch.
MaxMounts == 2
Instances == 1..MaxMounts

InitialHook ==
    [isSupported |-> FALSE, isSubscribed |-> FALSE, isLoading |-> TRUE,
     error |-> "null", needsPermissionPrompt |-> FALSE,
     permissionStatus |-> "unknown"]

NoProc ==
    [kind |-> "none", pc |-> "done", existing |-> FALSE, userOptedOut |-> FALSE,
     permissionStatus |-> "unknown", barred |-> FALSE]

\* setState of Dashboard i: it takes effect only while i is mounted.
SetState(h, i, st) == IF i = h.mounted THEN [h EXCEPT !.st = st] ELSE h

\* A call has ended: its locals are gone, and so is all of it once its
\* Dashboard is unmounted.
Ended(proc) == [NoProc EXCEPT !.kind = proc.kind, !.barred = proc.barred]
Finished(h, i) ==
    [h EXCEPT !.procs[i] = IF i = h.mounted THEN Ended(h.procs[i]) ELSE NoProc]
Unmounted(h) ==
    [h EXCEPT !.procs = [j \in Instances |->
                            IF h.procs[j].pc = "done" THEN NoProc ELSE h.procs[j]]]

\* The guards of checkAndRequestPermission.
ShouldSync_Always(existing, userOptedOut) == existing
ShouldSync(existing, userOptedOut) == existing /\ ~userOptedOut

ShowPrompt(userOptedOut) == ~userOptedOut

ShouldAutoSubscribe(permissionStatus, existing, userOptedOut) ==
    permissionStatus = "granted" /\ ~existing /\ ~userOptedOut

\* The Dashboard mounts: useState's initial value, then the effect runs
\* checkAndRequestPermission up to its first await.  barred is history: the
\* opt-out flag was set when this initialization began and has not been
\* cleared since.
Mounted(h, i) ==
    IF ~h.supported
    THEN [Unmounted(h) EXCEPT !.mounted = i,
                   !.st = [InitialHook EXCEPT !.isLoading = FALSE],
                   !.procs[i] = [NoProc EXCEPT !.kind = "init",
                                               !.barred = h.optOut]]
    ELSE [Unmounted(h) EXCEPT !.mounted = i,
                   !.st = InitialHook,
                   !.procs[i] = [NoProc EXCEPT !.kind = "init",
                                               !.pc = "register",
                                               !.barred = h.optOut]]

\* catch of checkAndRequestPermission.
InitCatch(h, i) ==
    SetState(Finished(h, i), i,
             [h.st EXCEPT !.isSupported = TRUE, !.isLoading = FALSE,
                          !.error = "Failed to initialize push notifications"])

\* The end of checkAndRequestPermission, from the permission test on.
Decide(h, i) ==
    LET p == h.procs[i]
    IN  IF p.permissionStatus = "default"
        THEN SetState(Finished(h, i), i,
                 [isSupported |-> TRUE, isSubscribed |-> FALSE,
                  isLoading |-> FALSE, error |-> "null",
                  needsPermissionPrompt |-> ShowPrompt(p.userOptedOut),
                  permissionStatus |-> "default"])
        ELSE IF ShouldAutoSubscribe(p.permissionStatus, p.existing, p.userOptedOut)
        THEN [h EXCEPT !.procs[i].pc = "autoKey"]
        ELSE SetState(Finished(h, i), i,
                 [isSupported |-> TRUE, isSubscribed |-> p.existing,
                  isLoading |-> FALSE, error |-> "null",
                  needsPermissionPrompt |-> FALSE,
                  permissionStatus |-> p.permissionStatus])

\* The two ends of autoSubscribe.
AutoDone(h, i, subscribed) ==
    SetState(Finished(h, i), i,
             [isSupported |-> TRUE, isSubscribed |-> subscribed,
              isLoading |-> FALSE, error |-> "null",
              needsPermissionPrompt |-> FALSE, permissionStatus |-> "granted"])

\* catch of subscribe and of unsubscribe.
CallCatch_StillLoading(h, i, message) ==
    SetState(Finished(h, i), i, [h.st EXCEPT !.error = message])
CallCatch(h, i, message) ==
    SetState(Finished(h, i), i,
             [h.st EXCEPT !.isLoading = FALSE, !.error = message])

\* The success end of subscribe: the flag is removed.
SubscribeDone(h, i) ==
    SetState([Finished(h, i) EXCEPT
                  !.optOut = FALSE, !.optOutBy = "none",
                  !.procs = [j \in Instances |->
                                [Finished(h, i).procs[j] EXCEPT !.barred = FALSE]]],
             i,
             [h.st EXCEPT !.isSubscribed = TRUE, !.isLoading = FALSE,
                          !.needsPermissionPrompt = FALSE,
                          !.permissionStatus = "granted"])

\* The success end of unsubscribe: the flag is set.
UnsubscribeDone(h, i) ==
    SetState([Finished(h, i) EXCEPT !.optOut = TRUE, !.optOutBy = "unsubscribe"],
             i,
             [h.st EXCEPT !.isSubscribed = FALSE, !.isLoading = FALSE])

\* What Notification.requestPermission() resolves to.
PermissionAnswers(permission) ==
    IF permission = "default" THEN {"granted", "denied", "default"}
    ELSE {permission}

PushUnchanged ==
    UNCHANGED <<state, timers, pending, nextId, now, storage, formVars, peer,
                bt, sc, dash, runTrades, streakSignal, streakTrades, runs,
                lastPrice, runValues, answered>>

\* A step of Dashboard i's call at position pc: push becomes Some(h2).
PushStep(i, pc, event, h2) ==
    /\ push # NullVal
    /\ push[1].procs[i].pc = pc
    /\ push' = Some(h2)
    /\ ev' = event
    /\ PushUnchanged

\* ---- checkAndRequestPermission, one action per await
InitRegister(i, out) ==
    LET h == push[1]
    IN  PushStep(i, "register", "register",
            IF out = "ok" THEN [h EXCEPT !.procs[i].pc = "getSubscription"]
            ELSE InitCatch(h, i))

InitGetSubscription(i, out) ==
    LET h == push[1]
    IN  PushStep(i, "getSubscription", "getSubscription",
            IF out = "ok"
            THEN [h EXCEPT !.procs[i].pc = "thresholds",
                           !.procs[i].existing = h.browserSub]
            ELSE InitCatch(h, i))

\* The thresholds answer, then synchronously: permission and flag are read and
\* the sync request is issued or the decision is taken.
InitThresholds(i, out) ==
    LET h == push[1]
        read == [h EXCEPT
                   !.procs[i].permissionStatus = h.permission,
                   !.procs[i].userOptedOut = h.optOut]
    IN  PushStep(i, "thresholds", "thresholds",
            IF out = "reject" THEN InitCatch(h, i)
            ELSE IF ShouldSync(read.procs[i].existing, read.procs[i].userOptedOut)
            THEN [read EXCEPT !.procs[i].pc = "sync"]
            ELSE Decide(read, i))

\* The sync request settles; its rejection is caught and logged.
InitSync(i, out) ==
    PushStep(i, "sync", "sync", Decide(push[1], i))

\* ---- autoSubscribe
AutoKey(i, out) ==
    LET h == push[1]
    IN  PushStep(i, "autoKey", "autoKey",
            IF out = "ok" THEN [h EXCEPT !.procs[i].pc = "autoPush"]
            ELSE AutoDone(h, i, FALSE))

AutoPush(i, out) ==
    LET h == push[1]
    IN  PushStep(i, "autoPush", "autoPush",
            IF out = "ok"
            THEN [h EXCEPT !.procs[i].pc = "autoPost", !.browserSub = TRUE]
            ELSE AutoDone(h, i, FALSE))

\* The registration request of autoSubscribe: res.ok is not looked at.
AutoPost(i, out) ==
    PushStep(i, "autoPost", "autoPost", AutoDone(push[1], i, out # "reject"))

\* ---- subscribe
\* Enable on the banner, or the toggle while it reads Alerts Off.
SubscribeClick ==
    /\ push # NullVal
    /\ LET h == push[1]
       IN  /\ ~h.st.isLoading
           /\ h.st.needsPermissionPrompt \/ (h.st.isSupported /\ ~h.st.isSubscribed)
           /\ push' = Some([h EXCEPT
                  !.st = [h.st EXCEPT !.isLoading = TRUE, !.error = "null"],
                  !.procs[h.mounted] = [NoProc EXCEPT !.kind = "subscribe",
                                                      !.pc = "subKey"]])
    /\ ev' = "subscribeClick"
    /\ PushUnchanged

SubKey(i, out) ==
    LET h == push[1]
    IN  PushStep(i, "subKey", "subKey",
            IF out = "ok" THEN [h EXCEPT !.procs[i].pc = "subPermission"]
            ELSE IF out = "notOk"
            THEN CallCatch(h, i, "VAPID key not configured on server")
            ELSE CallCatch(h, i, "Failed to subscribe"))

\* requestPermission resolves; on granted, serviceWorker.ready follows.
SubPermission(i, answer) ==
    LET h == push[1]
        asked == [h EXCEPT !.permission = answer]
    IN  /\ push # NullVal
        /\ answer \in PermissionAnswers(h.permission)
        /\ PushStep(i, "subPermission", "subPermission",
               IF answer = "granted" THEN [asked EXCEPT !.procs[i].pc = "subPush"]
               ELSE CallCatch(asked, i, "Notification permission denied"))

SubPush(i, out) ==
    LET h == push[1]
    IN  PushStep(i, "subPush", "subPush",
            IF out = "ok"
            THEN [h EXCEPT !.procs[i].pc = "subPost", !.browserSub = TRUE]
            ELSE CallCatch(h, i, "Failed to subscribe"))

SubPost(i, out) ==
    LET h == push[1]
    IN  PushStep(i, "subPost", "subPost",
            IF out = "ok" THEN SubscribeDone(h, i)
            ELSE IF out = "notOk"
            THEN CallCatch(h, i, "Failed to register subscription on server")
            ELSE CallCatch(h, i, "Failed to subscribe"))

\* ---- unsubscribe
\* The toggle while it reads Alerts On.
UnsubscribeClick ==
    /\ push # NullVal
    /\ LET h == push[1]
       IN  /\ ~h.st.isLoading
           /\ h.st.isSupported /\ h.st.isSubscribed
           /\ push' = Some([h EXCEPT
                  !.st = [h.st EXCEPT !.isLoading = TRUE, !.error = "null"],
                  !.procs[h.mounted] = [NoProc EXCEPT !.kind = "unsubscribe",
                                                      !.pc = "unsGet"]])
    /\ ev' = "unsubscribeClick"
    /\ PushUnchanged

\* serviceWorker.ready and getSubscription.
UnsGet(i, out) ==
    LET h == push[1]
    IN  PushStep(i, "unsGet", "unsGet",
            IF out # "ok" THEN CallCatch(h, i, "Failed to unsubscribe")
            ELSE IF h.browserSub THEN [h EXCEPT !.procs[i].pc = "unsLocal"]
            ELSE UnsubscribeDone(h, i))

UnsLocal(i, out) ==
    LET h == push[1]
    IN  PushStep(i, "unsLocal", "unsLocal",
            IF out = "ok"
            THEN [h EXCEPT !.procs[i].pc = "unsPost", !.browserSub = FALSE]
            ELSE CallCatch(h, i, "Failed to unsubscribe"))

\* The server is notified: res.ok is not looked at.
UnsPost(i, out) ==
    LET h == push[1]
    IN  PushStep(i, "unsPost", "unsPost",
            IF out = "reject" THEN CallCatch(h, i, "Failed to unsubscribe")
            ELSE UnsubscribeDone(h, i))

\* ---- the banner's close button (it is not disabled while loading)
DismissPermissionPrompt ==
    /\ push # NullVal
    /\ push[1].st.needsPermissionPrompt
    /\ push' = Some([push[1] EXCEPT !.optOut = TRUE, !.optOutBy = "dismiss",
                                    !.st.needsPermissionPrompt = FALSE])
    /\ ev' = "dismiss"
    /\ PushUnchanged

\* ---- the user leaves the Dashboard tab and comes back
Remount ==
    /\ push # NullVal
    /\ push[1].mounted < MaxMounts
    /\ push' = Some(Mounted(push[1], push[1].mounted + 1))
    /\ ev' = "remount"
    /\ PushUnchanged

\* The browsers a first mount can meet: a subscription needs support and a
\* granted permission.
Browser(s, p, b, o) ==
    [supported |-> s, permission |-> p, browserSub |-> b, optOut |-> o,
     optOutBy |-> IF o THEN "stored" ELSE "none",
     st |-> InitialHook, mounted |-> 0, procs |-> [j \in Instances |-> NoProc]]

PushBrowsers ==
    {h \in {Browser(s, p, b, o) :
                s \in BOOLEAN, p \in {"default", "granted", "denied"},
                b \in BOOLEAN, o \in BOOLEAN} :
        h.browserSub => (h.supported /\ h.permission = "granted")}

InitPush ==
    /\ InitApp
    /\ bt = NullVal
    /\ sc = NullVal
    /\ dash = NullVal
    /\ push \in {Some(Mounted(h, 1)) : h \in PushBrowsers}

Fetched == {"ok", "notOk", "reject"}
Called == {"ok", "reject"}

\* An awaited call of Dashboard i settles.
PushSettle(i) ==
    \/ \E out \in Called : InitRegister(i, out)
    \/ \E out \in Called : InitGetSubscription(i, out)
    \/ \E out \in Fetched : InitThresholds(i, out)
    \/ \E out \in Fetched : InitSync(i, out)
    \/ \E out \in Fetched : AutoKey(i, out)
    \/ \E out \in Called : AutoPush(i, out)
    \/ \E out \in Fetched : AutoPost(i, out)
    \/ \E out \in Fetched : SubKey(i, out)
    \/ \E answer \in {"granted", "denied", "default"} : SubPermission(i, answer)
    \/ \E out \in Called : SubPush(i, out)
    \/ \E out \in Fetched : SubPost(i, out)
    \/ \E out \in Called : UnsGet(i, out)
    \/ \E out \in Called : UnsLocal(i, out)
    \/ \E out \in Fetched : UnsPost(i, out)

NextPush ==
    \/ \E i \in Instances : PushSettle(i)
    \/ SubscribeClick
    \/ UnsubscribeClick
    \/ DismissPermissionPrompt
    \/ Remount

SpecPush == InitPush /\ [][NextPush]_vars

\* Each awaited call eventually settles.
SpecPushFair == SpecPush /\ \A i \in Instances : WF_vars(PushSettle(i))

\* ---------------------------------------------------------------- C31
\* The steps by which an initialization re-registers the existing subscription
\* or subscribes on its own.
AutoSteps == {"sync", "autoKey", "autoPush", "autoPost"}

C36_FlagMatchesBrowser ==
    [][push # NullVal =>
         LET i == push[1].mounted
         IN  (/\ push'[1].mounted = i
              /\ push[1].procs[i].kind \in {"subscribe", "unsubscribe"}
              /\ push[1].procs[i].pc # "done"
              /\ push'[1].procs[i].pc = "done")
             => push'[1].st.isSubscribed = push'[1].browserSub]_vars

\* ---------------------------------------------------------------- C37
PushLoading == push # NullVal /\ push[1].st.isLoading

\* C37: whenever the hook is loading, it is eventually not loading.
C37_LoadingEnds == PushLoading ~> ~PushLoading

\* An initialization whose auto-subscribe failed at the push manager has ended
\* and is not loading.
C37_Witness ==
    /\ push # NullVal
    /\ ev = "autoPush"
    /\ push[1].procs[push[1].mounted].kind = "init"
    /\ push[1].procs[push[1].mounted].pc = "done"
    /\ ~push[1].browserSub
    /\ ~push[1].st.isLoading

\* ================================================================ dashboard
\* The Dashboard's stock list and its loads.  dash is a record of
\*   trendView, stocks (the tickers listed), loading, adding: component state;
\*   server: the watchlist the backend holds;
\*   loads: the loadData calls in flight, each with the trendView of the render
\*     that called it, its position and its locals;
\*   add: the add request in flight, with the trendView of the render whose
\*     button was clicked, or null;
\*   shown: history, the interval of the load that last set the list;
\*   nextLoad: number of loads begun, plus one.
MaxLoads == 3
TrendViews == {"1H", "1D"}

IntervalParam(trendView) == IF trendView = "1H" THEN "1h" ELSE "1d"

DashUnchanged ==
    UNCHANGED <<state, timers, pending, nextId, now, storage, formVars, peer,
                bt, sc, push, runTrades, streakSignal, streakTrades, runs,
                lastPrice, runValues, answered>>

\* loadData up to its first await, called from a render showing trendView.
LoadData(d, trendView) ==
    [d EXCEPT !.loading = TRUE,
              !.loads = d.loads \cup {[id |-> d.nextLoad, trendView |-> trendView,
                                       pc |-> "watchlist", tickers |-> {},
                                       mapped |-> {}]},
              !.nextLoad = d.nextLoad + 1]

\* A load sets the list and ends; finally clears the loading flag.
LoadEnd(d, load, tickers) ==
    [d EXCEPT !.stocks = tickers,
              !.shown = IntervalParam(load.trendView),
              !.loading = FALSE,
              !.loads = d.loads \ {load}]

Moved(d, load, pc, tickers, mapped) ==
    [d EXCEPT !.loads = (d.loads \ {load})
                  \cup {[load EXCEPT !.pc = pc, !.tickers = tickers,
                                     !.mapped = mapped]}]

\* fetchWatchlist answers (a failure gives no tickers); fetchStockData starts.
LoadWatchlist(load, out) ==
    /\ dash # NullVal
    /\ load \in dash[1].loads
    /\ load.pc = "watchlist"
    /\ LET d == dash[1]
           watchlist == IF out = "ok" THEN d.server ELSE {}
       IN  dash' = Some(IF watchlist = {} THEN LoadEnd(d, load, {})
                        ELSE Moved([d EXCEPT !.loading = TRUE], load, "overview",
                                   watchlist, {}))
    /\ ev' = "watchlist"
    /\ DashUnchanged

\* The overview answers with the cached stocks of the watchlist.
LoadOverview(load, out, cached) ==
    /\ dash # NullVal
    /\ load \in dash[1].loads
    /\ load.pc = "overview"
    /\ cached \subseteq dash[1].server
    /\ LET d == dash[1]
           missingTickers == load.tickers \ cached
       IN  dash' = Some(IF out # "ok" THEN LoadEnd(d, load, {})
                        ELSE IF missingTickers # {}
                        THEN Moved(d, load, "missing", load.tickers, cached)
                        ELSE LoadEnd(d, load, cached))
    /\ ev' = "overview"
    /\ DashUnchanged

\* Promise.all of the single analyses settles: the failed ones are dropped.
LoadMissing(load, successful) ==
    /\ dash # NullVal
    /\ load \in dash[1].loads
    /\ load.pc = "missing"
    /\ successful \subseteq (load.tickers \ load.mapped)
    /\ dash' = Some(LoadEnd(dash[1], load, load.mapped \cup successful))
    /\ ev' = "missing"
    /\ DashUnchanged

\* The trend view select: setTrendView, then the effect calls loadData.
SetTrendView(v) ==
    /\ dash # NullVal
    /\ v # dash[1].trendView
    /\ dash[1].nextLoad <= MaxLoads
    /\ dash' = Some(LoadData([dash[1] EXCEPT !.trendView = v], v))
    /\ ev' = "setTrendView"
    /\ DashUnchanged

\* The add button: handleAddStock up to its await.
AddClick(ticker) ==
    /\ dash # NullVal
    /\ dash[1].add = NullVal
    /\ dash[1].nextLoad <= MaxLoads
    /\ dash' = Some([dash[1] EXCEPT
                        !.adding = TRUE,
                        !.add = Some([ticker |-> ticker,
                                      trendView |-> dash[1].trendView])])
    /\ ev' = "addClick"
    /\ DashUnchanged

\* The add request settles: on ok loadData is called, not awaited.
AddSettle(out) ==
    /\ dash # NullVal
    /\ dash[1].add # NullVal
    /\ LET d == [dash[1] EXCEPT !.adding = FALSE, !.add = NullVal]
           req == dash[1].add[1]
       IN  dash' = Some(IF out = "ok"
                        THEN LoadData([d EXCEPT !.server = d.server \cup {req.ticker}],
                                      req.trendView)
                        ELSE d)
    /\ ev' = "addSettle"
    /\ DashUnchanged

\* The Dashboard mounts over a watchlist: the effect calls loadData.
DashMounted(server) ==
    LoadData([trendView |-> "1D", stocks |-> {}, loading |-> TRUE,
              adding |-> FALSE, server |-> server, loads |-> {}, add |-> NullVal,
              shown |-> "none", nextLoad |-> 1], "1D")

InitDash ==
    /\ InitApp
    /\ bt = NullVal
    /\ sc = NullVal
    /\ push = NullVal
    /\ dash \in {Some(DashMounted(server)) : server \in SUBSET Tickers}

NextDash ==
    \/ \E load \in dash[1].loads, out \in Fetched : LoadWatchlist(load, out)
    \/ \E load \in dash[1].loads, out \in Fetched, cached \in SUBSET Tickers :
           LoadOverview(load, out, cached)
    \/ \E load \in dash[1].loads, successful \in SUBSET Tickers :
           LoadMissing(load, successful)
    \/ \E v \in TrendViews : SetTrendView(v)
    \/ \E ticker \in Tickers : AddClick(ticker)
    \/ \E out \in Fetched : AddSettle(out)

SpecDash == InitDash /\ [][NextDash]_vars

\* ---------------------------------------------------------------- C38
\* C38: once every load has completed (and no add request is in flight), the
\* list is that of a load for the selected trend view; the loading flag is
\* set while a load is in flight.
C38_ListMatchesTrendView ==
    dash # NullVal =>
        /\ (dash[1].loads = {} /\ dash[1].add = NullVal)
               => dash[1].shown = IntervalParam(dash[1].trendView)
        /\ dash[1].loads # {} => dash[1].loading

====
